---- MODULE Spec2Model ----
(***************************************************************************)
(* Model of the plumber pipeline-compliance analyzer (getplumber/plumber). *)
(*                                                                         *)
(* Several state machines share the variables below:                       *)
(*   SpecBranch  the branch protection merge (control.checkBranches)       *)
(*   SpecOrigin  the pipeline origin data collection                       *)
(*   SpecRun     one `analyze` run: runAnalyze, RunAnalysis and the        *)
(*               threshold comparison                                      *)
(*   SpecImage   the image reference parser (parseImageLink)               *)
(* Go strings that the code inspects character by character are modelled   *)
(* as sequences of one-character strings.                                  *)
(***************************************************************************)
EXTENDS Integers, Sequences, FiniteSets, TLC

VARIABLES
    \* ---- branch protection merge ----
    bpPhase,            \* "input" | "done"
    bpBranches,         \* protectionData.Branches
    bpProtections,      \* protectionData.BranchProtections
    bpDefaultBranch,    \* project.DefaultBranch
    bpConfig,           \* BranchProtectionControlConfig (NamePatterns, DefaultMustBeProtected)
    branchesToProtect,  \* result of checkBranches: branch name -> BranchProtectionCompliance
    \* ---- pipeline origin data collection (GitlabPipelineOriginDataCollection.Run) ----
    pc,                 \* position in Run: "idle" | "getci" | "catalog" | "jobs" | "includes" | "done" | "error"
    world,              \* what the remote service answers for this project (input)
    ci,                 \* data.Conf, data.MergedConf, data.MergedResponse, data.ConfString, err
    flags,              \* data.CiValid, data.CiMissing, data.LimitedAnalysis
    catalog,            \* data.GitlabCatalogResources, GitlabCatalogComponentMap, VersionMap
    JobMap,             \* data.JobMap: name -> GitlabPipelineJobData
    JobExtendsMap,      \* data.JobExtendsMap: extended job -> jobs extending it
    JobHardcodedMap,    \* data.JobHardcodedMap: name -> bool
    Origins,            \* data.Origins
    idx,                \* number of inclusions of the merged response already handled
    fetchLog,           \* per handled inclusion: what FetchGitlabInclude was asked and answered
    metrics,            \* GitlabPipelineOriginMetrics
    \* ---- one run of the analyze command (runAnalyze, RunAnalysis) ----
    runPc,              \* position: "start" | "project" | "origin" | "image" | "controls" | "analysed" | "exit"
    cli,                \* GITLAB_TOKEN, --threshold and the configuration file of the invocation
    result,             \* the AnalysisResult built by RunAnalysis
    raErr,              \* the error returned by RunAnalysis
    compliance,         \* overall compliance computed by runAnalyze, in sixths of a percent
    exitCode,           \* exit code of the process
    \* ---- image reference parsing (GitlabPipelineImageDataCollection.Run) ----
    imgPc,              \* position in the job loop: "resolved" | "skipped" | "parsed"
    imageLink,          \* the job's image after variable replacement (input)
    image,              \* the GitlabPipelineImageInfo appended to data.Images
    \* ---- inputs of the inclusions (buildIncludeInputsMap and its use in Run) ----
    inPc,               \* "build" | "lookup" | "done"
    inWorld,            \* instance URL, include entries of the unexpanded configuration (input)
    includeInputsMap,   \* fingerprint -> inputs, built from the unexpanded configuration
    includeInputs,      \* per inclusion occurrence handled: its fingerprint and the inputs found
    \* ---- GitlabPipelineImageDataCollection.Run ----
    colPc,              \* "start" | "instance" | "group" | "project" | "jobs" | "returned"
    colWorld,           \* origin data, project and the answers of the variable endpoints (input)
    colData,            \* GitlabPipelineImageData
    colErr,             \* the error Run returns
    \* ---- ReplaceVariable ----
    rvPc,               \* "loop" | "returned"
    rvInput,            \* the string given to ReplaceVariable
    rvScopes,           \* the six scope mappings, as Run passes them
    rvPrevious,         \* previous
    rvCurrent,          \* current
    rvLevel,            \* level
    rvOutputs,          \* what the applications of ReplaceVariable returned, in order
    \* ---- IsUpToDate ----
    utdPc,              \* "call" | "returned"
    utdIn,              \* version, latestVersion and the default branch of the project (input)
    utdResult,          \* what IsUpToDate returned
    \* ---- retryableTransport.RoundTrip ----
    rtPc,               \* "start" | "attempt" | "exhausted" | "returned"
    rtIn,               \* MaxRetries, whether the body can be read, the outcomes of the base transport (input)
    rtAttempt,          \* the loop variable attempt
    rtCalls,            \* how many times base.RoundTrip has been called
    rtOut,              \* what RoundTrip returned
    \* ---- checkImageAuthorizationStatus ----
    authPc,             \* "wait" | "checked"
    authIn,             \* the trusted urls and the Docker Hub option of the control (input)
    authOut             \* the status returned, and what granted it

bpVars == <<bpPhase, bpBranches, bpProtections, bpDefaultBranch, bpConfig, branchesToProtect>>

originVars == <<pc, world, ci, flags, catalog, JobMap, JobExtendsMap, JobHardcodedMap,
                Origins, idx, fetchLog, metrics>>

runVars == <<runPc, cli, result, raErr, compliance, exitCode>>

imageVars == <<imgPc, imageLink, image>>

inputsVars == <<inPc, inWorld, includeInputsMap, includeInputs>>

\* the variables of the state machines that are declared after the first four
collectVars == <<colPc, colWorld, colData, colErr>>

resolveVars == <<rvPc, rvInput, rvScopes, rvPrevious, rvCurrent, rvLevel, rvOutputs>>

upToDateVars == <<utdPc, utdIn, utdResult>>

\* the variables of the state machines that are declared after resolveVars
retryVars == <<rtPc, rtIn, rtAttempt, rtCalls, rtOut>>
authVars == <<authPc, authIn, authOut>>

laterVars == <<upToDateVars, retryVars, authVars>>

furtherVars == <<inputsVars, collectVars, resolveVars, laterVars>>

vars == <<bpVars, originVars, runVars, imageVars, furtherVars>>

\* the value of a variable that the state machine at hand does not use
Unused == << >>

\* the origin data collection is not part of the behaviour
OriginUnused ==
    /\ pc = "unused" /\ world = Unused /\ ci = Unused /\ flags = Unused
    /\ catalog = Unused /\ JobMap = Unused /\ JobExtendsMap = Unused
    /\ JobHardcodedMap = Unused /\ Origins = Unused /\ idx = 0
    /\ fetchLog = Unused /\ metrics = Unused

\* the analyze command is not part of the behaviour
RunUnused ==
    /\ runPc = "unused" /\ cli = Unused /\ result = Unused /\ raErr = Unused
    /\ compliance = 0 /\ exitCode = 0

\* the image reference parser is not part of the behaviour
ImageUnused ==
    /\ imgPc = "unused" /\ imageLink = Unused /\ image = Unused

\* the lookup of inclusion inputs is not part of the behaviour
InputsUnused ==
    /\ inPc = "unused" /\ inWorld = Unused /\ includeInputsMap = Unused
    /\ includeInputs = Unused

\* the image data collection is not part of the behaviour
CollectUnused ==
    /\ colPc = "unused" /\ colWorld = Unused /\ colData = Unused /\ colErr = Unused

\* the variable resolution is not part of the behaviour
ResolveUnused ==
    /\ rvPc = "unused" /\ rvInput = Unused /\ rvScopes = Unused /\ rvPrevious = Unused
    /\ rvCurrent = Unused /\ rvLevel = 0 /\ rvOutputs = Unused

\* the version check is not part of the behaviour
UpToDateUnused ==
    /\ utdPc = "unused" /\ utdIn = Unused /\ utdResult = Unused

\* the retrying transport is not part of the behaviour
RetryUnused ==
    /\ rtPc = "unused" /\ rtIn = Unused /\ rtAttempt = 0 /\ rtCalls = 0 /\ rtOut = Unused

\* the authorization check is not part of the behaviour
AuthUnused ==
    /\ authPc = "unused" /\ authIn = Unused /\ authOut = Unused

LaterUnused == UpToDateUnused /\ RetryUnused /\ AuthUnused

FurtherUnused == InputsUnused /\ CollectUnused /\ ResolveUnused /\ LaterUnused

\* the branch protection merge is not part of the behaviour
BranchUnused ==
    /\ bpPhase = "unused" /\ bpBranches = Unused /\ bpProtections = Unused
    /\ bpDefaultBranch = Unused /\ bpConfig = Unused /\ branchesToProtect = Unused

------------------------------------------------------------------------------
(* Generic helpers on sequences                                             *)

RECURSIVE SeqsUpTo(_, _)
SeqsUpTo(S, n) ==
    IF n = 0 THEN {<< >>}
    ELSE LET shorter == SeqsUpTo(S, n - 1)
         IN  shorter \cup {Append(s, x) : s \in {t \in shorter : Len(t) = n - 1}, x \in S}

Range(s) == {s[i] : i \in 1..Len(s)}

\* ---- Go's strings package on sequences of characters (or tokens) ----

\* s[from..to], 1-based and inclusive; empty when from > to
Slice(s, from, to) == SubSeq(s, from, to)

\* strings.HasPrefix
HasPrefix(s, prefix) ==
    Len(prefix) <= Len(s) /\ SubSeq(s, 1, Len(prefix)) = prefix

\* strings.HasSuffix
HasSuffix(s, suffix) ==
    Len(suffix) <= Len(s) /\ SubSeq(s, Len(s) - Len(suffix) + 1, Len(s)) = suffix

\* strings.TrimPrefix
TrimPrefix(s, prefix) ==
    IF HasPrefix(s, prefix) THEN SubSeq(s, Len(prefix) + 1, Len(s)) ELSE s

\* strings.TrimSuffix
TrimSuffix(s, suffix) ==
    IF HasSuffix(s, suffix) THEN SubSeq(s, 1, Len(s) - Len(suffix)) ELSE s

\* positions (1-based) at which sub occurs in s
Occurrences(s, sub) ==
    {i \in 1..(Len(s) - Len(sub) + 1) : SubSeq(s, i, i + Len(sub) - 1) = sub}

\* strings.Contains
Contains(s, sub) == sub = << >> \/ Occurrences(s, sub) # {}

\* strings.Index, 0-based as in Go, -1 when absent
Index(s, sub) ==
    IF sub = << >> THEN 0
    ELSE IF Occurrences(s, sub) = {} THEN -1
    ELSE (CHOOSE i \in Occurrences(s, sub) : \A j \in Occurrences(s, sub) : i <= j) - 1

\* strings.LastIndex, 0-based as in Go, -1 when absent
LastIndex(s, sub) ==
    IF sub = << >> THEN Len(s)
    ELSE IF Occurrences(s, sub) = {} THEN -1
    ELSE (CHOOSE i \in Occurrences(s, sub) : \A j \in Occurrences(s, sub) : i >= j) - 1

\* strings.Count for a non-empty sub of length 1
Count(s, c) == Cardinality({i \in 1..Len(s) : s[i] = c})

\* Go's s[from:] and s[:to] with 0-based offsets
From(s, from) == SubSeq(s, from + 1, Len(s))
Upto(s, to) == SubSeq(s, 1, to)

\* strings.Split for a separator of length 1: the sequence of parts
RECURSIVE Split(_, _)
Split(s, sep) ==
    LET i == Index(s, <<sep>>) IN
    IF i = -1 THEN <<s>>
    ELSE <<Upto(s, i)>> \o Split(From(s, i + 1), sep)

------------------------------------------------------------------------------
(* Branch protection merge                                                  *)

AccessLevelNo == 0
AccessLevelDeveloper == 30
AccessLevelMaintainer == 40

\* github.com/IGLOU-EU/go-wildcard/v2 Match as the control uses it:
\* "*" any run of characters, "?" zero or one character, "." exactly one.
RECURSIVE matchFrom(_, _)
matchFrom(pattern, s) ==
    IF pattern = << >> THEN s = << >>
    ELSE LET p == Head(pattern) IN
         IF p = "*" THEN
              \/ matchFrom(Tail(pattern), s)
              \/ (s # << >> /\ matchFrom(pattern, Tail(s)))
         ELSE IF p = "?" THEN
              \/ matchFrom(Tail(pattern), s)
              \/ (s # << >> /\ matchFrom(Tail(pattern), Tail(s)))
         ELSE IF p = "." THEN
              s # << >> /\ matchFrom(Tail(pattern), Tail(s))
         ELSE s # << >> /\ Head(s) = p /\ matchFrom(Tail(pattern), Tail(s))

WildcardMatch(pattern, s) ==
    IF pattern = << >> THEN s = pattern
    ELSE IF pattern = <<"*">> \/ s = pattern THEN TRUE
    ELSE matchFrom(pattern, s)

\* A freshly created BranchProtectionCompliance (Go zero values for the
\* fields the constructor literal leaves out).
NewCompliance(name, isDefault) ==
    [ BranchName |-> name, Default |-> isDefault, Protected |-> FALSE,
      AllowForcePush |-> FALSE, CodeOwnerApprovalRequired |-> FALSE,
      MinPushAccessLevel |-> 0, MinMergeAccessLevel |-> 0,
      ProtectionPattern |-> << >>,
      PushAccessLevels |-> << >>, MergeAccessLevels |-> << >> ]

\* RequiredBranches without the default branch policy
RequiredBranches_PatternsOnly(branches, defaultBranch, config) ==
    {branches[i] : i \in {j \in 1..Len(branches) :
        \E k \in 1..Len(config.NamePatterns) :
            WildcardMatch(config.NamePatterns[k], branches[j])}}

\* part 1 of checkBranches: which branches need protection
RequiredBranches(branches, defaultBranch, config) ==
    (IF config.DefaultMustBeProtected THEN {defaultBranch} ELSE {})
    \cup {branches[i] : i \in {j \in 1..Len(branches) :
              \E k \in 1..Len(config.NamePatterns) :
                  WildcardMatch(config.NamePatterns[k], branches[j])}}

\* the entry the first loops create for a required branch
SeedBranch(name, defaultBranch, config) ==
    IF config.DefaultMustBeProtected /\ name = defaultBranch
    THEN NewCompliance(name, TRUE)
    ELSE NewCompliance(name, name = defaultBranch)

\* Baseline that leaves the seeded zero values in place
Baseline_ZeroValues(b) == b

\* "Set all branches to protect with the least permissive protection"
Baseline(b) ==
    [b EXCEPT !.AllowForcePush = FALSE,
              !.CodeOwnerApprovalRequired = TRUE,
              !.MinMergeAccessLevel = AccessLevelNo,
              !.MinPushAccessLevel = AccessLevelNo,
              !.PushAccessLevels = << >>,
              !.MergeAccessLevels = << >>]

\* mutant of MergeLevelStep: a rule level of 0 may displace a real minimum
MergeLevelStep_ZeroDisplaces(b, lvl) ==
    LET b1 == [b EXCEPT !.MergeAccessLevels = Append(@, lvl)] IN
    IF b1.MinMergeAccessLevel = 0 \/ lvl < b1.MinMergeAccessLevel
    THEN [b1 EXCEPT !.MinMergeAccessLevel = lvl]
    ELSE b1

\* one iteration of the merge access level loop
MergeLevelStep(b, lvl) ==
    LET b1 == [b EXCEPT !.MergeAccessLevels = Append(@, lvl)] IN
    IF b1.MinMergeAccessLevel = 0
       \/ (lvl # AccessLevelNo /\ lvl < b1.MinMergeAccessLevel)
    THEN [b1 EXCEPT !.MinMergeAccessLevel = lvl]
    ELSE b1

\* one iteration of the push access level loop (the comparison reads
\* MinMergeAccessLevel, as the source does)
PushLevelStep(b, lvl) ==
    LET b1 == [b EXCEPT !.PushAccessLevels = Append(@, lvl)] IN
    IF b1.MinPushAccessLevel = 0
       \/ (lvl # AccessLevelNo /\ lvl < b1.MinMergeAccessLevel)
    THEN [b1 EXCEPT !.MinPushAccessLevel = lvl]
    ELSE b1

RECURSIVE MergeLevels(_, _)
MergeLevels(b, lvls) ==
    IF lvls = << >> THEN b ELSE MergeLevels(MergeLevelStep(b, Head(lvls)), Tail(lvls))

RECURSIVE PushLevels(_, _)
PushLevels(b, lvls) ==
    IF lvls = << >> THEN b ELSE PushLevels(PushLevelStep(b, Head(lvls)), Tail(lvls))

\* mutant of MergeForcePush: the last matching rule wins
MergeForcePush_LastWins(cur, ruleValue) == ruleValue

\* merged allow-force-push after one matching rule
MergeForcePush(cur, ruleValue) == IF ~cur THEN ruleValue ELSE cur

\* mutant of MergeCodeOwner: the last matching rule wins
MergeCodeOwner_LastWins(cur, ruleValue) == ruleValue

\* merged code-owner-approval-required after one matching rule
MergeCodeOwner(cur, ruleValue) == IF cur THEN ruleValue ELSE cur

\* body of the inner loop of checkBranches for one protection rule
ApplyProtection(b, bp) ==
    IF ~WildcardMatch(bp.ProtectionPattern, b.BranchName) THEN b
    ELSE LET b1 == [b EXCEPT !.Protected = TRUE,
                             !.ProtectionPattern = bp.ProtectionPattern,
                             !.AllowForcePush = MergeForcePush(@, bp.AllowForcePush),
                             !.CodeOwnerApprovalRequired =
                                  MergeCodeOwner(@, bp.CodeOwnerApprovalRequired)]
         IN  PushLevels(MergeLevels(b1, bp.MergeAccessLevels), bp.PushAccessLevels)

RECURSIVE ScanProtections(_, _)
ScanProtections(b, bps) ==
    IF bps = << >> THEN b ELSE ScanProtections(ApplyProtection(b, Head(bps)), Tail(bps))

checkBranches(branches, branchProtections, defaultBranch, config) ==
    [name \in RequiredBranches(branches, defaultBranch, config) |->
        ScanProtections(Baseline(SeedBranch(name, defaultBranch, config)),
                        branchProtections)]

\* ---- inputs of the branch protection merge ----
MaxRules == 2

BranchMain == <<"m">>
BranchDev == <<"d">>
RulePatterns == {<<"*">>, <<"d">>}
Levels == {AccessLevelNo, AccessLevelDeveloper, AccessLevelMaintainer}
LevelLists == {<<l>> : l \in Levels}

ProtectionRules ==
    [ ProtectionPattern : RulePatterns, AllowForcePush : BOOLEAN,
      CodeOwnerApprovalRequired : BOOLEAN,
      MergeAccessLevels : LevelLists, PushAccessLevels : LevelLists ]

BranchConfigs ==
    [ NamePatterns : {<< >>, <<<<"*">>>>, <<<<"d">>, <<"d", "*">>>>},
      DefaultMustBeProtected : BOOLEAN ]

NoResult == << >>

InitBranch ==
    /\ bpPhase = "input"
    /\ bpBranches = <<BranchMain, BranchDev>>
    /\ bpDefaultBranch = BranchMain
    /\ bpProtections \in SeqsUpTo(ProtectionRules, MaxRules)
    /\ bpConfig \in BranchConfigs
    /\ branchesToProtect = NoResult
    /\ OriginUnused
    /\ RunUnused
    /\ ImageUnused
    /\ FurtherUnused

\* GitlabBranchProtectionControl.Run calling checkBranches
CheckBranches ==
    /\ bpPhase = "input"
    /\ Len(bpBranches) # 0
    /\ branchesToProtect' = checkBranches(bpBranches, bpProtections, bpDefaultBranch, bpConfig)
    /\ bpPhase' = "done"
    /\ UNCHANGED <<bpBranches, bpProtections, bpDefaultBranch, bpConfig>>
    /\ UNCHANGED <<originVars, runVars, imageVars, furtherVars>>

NextBranch == CheckBranches

SpecBranch == InitBranch /\ [][NextBranch]_vars

------------------------------------------------------------------------------
(* Claims about the branch protection merge (SpecBranch)                    *)

\* indices of the protection rules whose pattern matches branch `name`
MatchingRules(name) ==
    {i \in 1..Len(bpProtections) :
        WildcardMatch(bpProtections[i].ProtectionPattern, name)}

SetMin(S) == CHOOSE x \in S : \A y \in S : x <= y

LowestNonZero(name, field) ==
    LET S == {l \in Levels \ {AccessLevelNo} :
                \E i \in MatchingRules(name) :
                    \E k \in 1..Len(bpProtections[i][field]) :
                        bpProtections[i][field][k] = l}
    IN  IF S = {} THEN AccessLevelNo ELSE SetMin(S)

\* C1: for every required branch, the merged allow-force-push is true iff
\* at least one protection rule matching the branch allows force push.
C1_ForcePushIffAnyMatchingAllows ==
    bpPhase = "done" =>
        \A name \in DOMAIN branchesToProtect :
            branchesToProtect[name].AllowForcePush
                <=> (\E i \in MatchingRules(name) : bpProtections[i].AllowForcePush)

\* two matching rules that disagree on force push, merged to true
C1_Witness ==
    /\ bpPhase = "done"
    /\ \E name \in DOMAIN branchesToProtect :
         /\ \E i, j \in MatchingRules(name) :
               i < j /\ bpProtections[i].AllowForcePush /\ ~bpProtections[j].AllowForcePush
         /\ branchesToProtect[name].AllowForcePush

\* C2: for every required branch, the merged code-owner-approval-required is
\* true iff every protection rule matching the branch requires it.
C2_CodeOwnerIffAllMatchingRequire ==
    bpPhase = "done" =>
        \A name \in DOMAIN branchesToProtect :
            branchesToProtect[name].CodeOwnerApprovalRequired
                <=> (\A i \in MatchingRules(name) :
                        bpProtections[i].CodeOwnerApprovalRequired)

\* two matching rules that disagree on code-owner approval, merged to false
C2_Witness ==
    /\ bpPhase = "done"
    /\ \E name \in DOMAIN branchesToProtect :
         /\ \E i, j \in MatchingRules(name) :
               /\ i < j
               /\ ~bpProtections[i].CodeOwnerApprovalRequired
               /\ bpProtections[j].CodeOwnerApprovalRequired
         /\ ~branchesToProtect[name].CodeOwnerApprovalRequired

\* C3: for every required branch, the merged minimum push access level after
\* the scan is the lowest non-zero push level of any matching rule, and 0
\* only when no matching rule carries a non-zero push level.
C3_MinPushIsLowestNonZero ==
    bpPhase = "done" =>
        \A name \in DOMAIN branchesToProtect :
            branchesToProtect[name].MinPushAccessLevel
                = LowestNonZero(name, "PushAccessLevels")

\* C4: for every required branch, the merged minimum merge access level after
\* the scan is the lowest non-zero merge level of any matching rule, and 0
\* only when no matching rule carries a non-zero merge level.
C4_MinMergeIsLowestNonZero ==
    bpPhase = "done" =>
        \A name \in DOMAIN branchesToProtect :
            branchesToProtect[name].MinMergeAccessLevel
                = LowestNonZero(name, "MergeAccessLevels")

\* a matching rule with merge level 0 follows one with a real level, and the
\* real level is kept
C4_Witness ==
    /\ bpPhase = "done"
    /\ \E name \in DOMAIN branchesToProtect :
         /\ \E i, j \in MatchingRules(name) :
               /\ i < j
               /\ bpProtections[i].MergeAccessLevels = <<AccessLevelDeveloper>>
               /\ bpProtections[j].MergeAccessLevels = <<AccessLevelNo>>
         /\ branchesToProtect[name].MinMergeAccessLevel = AccessLevelDeveloper

------------------------------------------------------------------------------
(* Pipeline origin data collection (GitlabPipelineOriginDataCollection.Run) *)

\* Gitlab include types and the origin types derived from them
glOriginComponent == "component"
glOriginLocal == "local"
glOriginProject == "file"
glOriginRemote == "remote"
glOriginTemplate == "template"
originHardcoded == "hardcoded"
originComponent == "component"
originLocal == "local"
originProject == "project"
originRemote == "remote"
originTemplate == "template"
glComponentVersionSeparator == "@"

\* the refs that always count as the latest version (each one token)
pbLatestTag == <<"latest">>
glTildeLatestTag == <<"~latest">>
gitHeadRef == <<"HEAD">>
mainBranch == <<"main">>
masterBranch == <<"master">>

\* ---- github.com/hashicorp/go-version, as far as the collection uses it ----

DigitValue(c) ==
    CASE c = "0" -> 0 [] c = "1" -> 1 [] c = "2" -> 2 [] c = "3" -> 3
      [] c = "4" -> 4 [] c = "5" -> 5 [] c = "6" -> 6 [] c = "7" -> 7
      [] c = "8" -> 8 [] c = "9" -> 9 [] OTHER -> -1

RECURSIVE ParseNumber(_, _)
\* decimal value of a string of digits, -1 when it is empty or has another character
ParseNumber(s, acc) ==
    IF s = << >> THEN acc
    ELSE IF DigitValue(Head(s)) = -1 THEN -1
    ELSE ParseNumber(Tail(s), acc * 10 + DigitValue(Head(s)))

VersionError == <<-1>>

\* gover.NewVersion: an optional "v", then numeric segments separated by "."
\* (pre-release and metadata suffixes are outside the inputs modelled here)
NewVersion(v) ==
    LET body == IF v # << >> /\ v[1] = "v" THEN Tail(v) ELSE v
        segs == Split(body, ".")
        nums == [i \in 1..Len(segs) |->
                    IF segs[i] = << >> THEN -1 ELSE ParseNumber(segs[i], 0)]
    IN  IF body = << >> \/ (\E i \in 1..Len(nums) : nums[i] = -1)
        THEN VersionError
        ELSE nums

\* segment i of a parsed version, missing segments count as 0
Segment(n, i) == IF i <= Len(n) THEN n[i] ELSE 0

\* Version.Compare on parsed versions: -1, 0 or 1
CompareVersions(n1, n2) ==
    LET len == IF Len(n1) > Len(n2) THEN Len(n1) ELSE Len(n2)
        diff == {i \in 1..len : Segment(n1, i) # Segment(n2, i)}
    IN  IF diff = {} THEN 0
        ELSE LET i == CHOOSE k \in diff : \A j \in diff : k <= j
             IN  IF Segment(n1, i) < Segment(n2, i) THEN -1 ELSE 1

\* Go's comparison of two strings with `>` on the characters used for versions
CharRank(c) ==
    CASE c = "." -> 1 [] DigitValue(c) # -1 -> 2 + DigitValue(c)
      [] c = "v" -> 20 [] OTHER -> 30

RECURSIVE StringGreater(_, _)
StringGreater(s, t) ==
    IF s = << >> THEN FALSE
    ELSE IF t = << >> THEN TRUE
    ELSE IF Head(s) # Head(t) THEN CharRank(Head(s)) > CharRank(Head(t))
    ELSE StringGreater(Tail(s), Tail(t))

\* the comparison given to sort.Slice: newest first
VersionBefore(v1, v2) ==
    IF NewVersion(v1) # VersionError /\ NewVersion(v2) # VersionError
    THEN CompareVersions(NewVersion(v1), NewVersion(v2)) = 1
    ELSE StringGreater(v1, v2)

RECURSIVE InsertVersion(_, _)
\* one step of the insertion sort that sort.Slice runs on short slices
InsertVersion(sorted, v) ==
    IF sorted = << >> THEN <<v>>
    ELSE IF VersionBefore(v, sorted[Len(sorted)])
         THEN Append(InsertVersion(SubSeq(sorted, 1, Len(sorted) - 1), v), sorted[Len(sorted)])
         ELSE Append(sorted, v)

RECURSIVE SortVersions(_)
SortVersions(versions) ==
    IF versions = << >> THEN << >>
    ELSE InsertVersion(SortVersions(SubSeq(versions, 1, Len(versions) - 1)),
                       versions[Len(versions)])

\* IsUpToDate with a strict comparison of the parsed versions
IsUpToDate_StrictlyNewer(version, latestVersion, latestRefs) ==
    IF latestVersion = << >> \/ version = << >> THEN FALSE
    ELSE IF version = latestVersion THEN TRUE
    ELSE IF \E i \in 1..Len(latestRefs) : version = latestRefs[i] THEN TRUE
    ELSE IF NewVersion(version) # VersionError /\ NewVersion(latestVersion) # VersionError
         THEN CompareVersions(NewVersion(version), NewVersion(latestVersion)) > 0
         ELSE FALSE

\* gitlab.IsUpToDate
IsUpToDate(version, latestVersion, latestRefs) ==
    IF latestVersion = << >> \/ version = << >> THEN FALSE
    ELSE IF version = latestVersion THEN TRUE
    ELSE IF \E i \in 1..Len(latestRefs) : version = latestRefs[i] THEN TRUE
    ELSE IF NewVersion(version) # VersionError /\ NewVersion(latestVersion) # VersionError
         THEN CompareVersions(NewVersion(version), NewVersion(latestVersion)) >= 0
         ELSE FALSE

\* ---- values shared by the collection ----

\* a nil pointer
Nil == [nil |-> TRUE]

\* a nil error; an error is its message
NoError == << >>

EmptyMap == << >>

\* m with key k set to v
MapPut(m, k, v) == [x \in DOMAIN m \cup {k} |-> IF x = k THEN v ELSE m[x]]

RECURSIVE Flatten(_)
\* concatenation of a sequence of sequences
Flatten(ss) == IF ss = << >> THEN << >> ELSE Head(ss) \o Flatten(Tail(ss))

RECURSIVE Select(_, _)
\* the elements of s at the positions in keep, in order
Select(s, keep) ==
    IF s = << >> THEN << >>
    ELSE LET rest == Select(SubSeq(s, 1, Len(s) - 1), keep)
         IN  IF Len(s) \in keep THEN Append(rest, s[Len(s)]) ELSE rest

\* every ordering of a finite set, as sequences without repetition
Orderings(S) ==
    {o \in [1..Cardinality(S) -> S] : \A i, j \in 1..Cardinality(S) : i # j => o[i] # o[j]}

\* ParseGitlabComponentPath: instance, clean path and version of a component path
ParseGitlabComponentPath(path, instanceURL) ==
    LET gitlabServerName == TrimPrefix(TrimPrefix(instanceURL, <<"https://">>), <<"http://">>)
        known == <<gitlabServerName, <<"$CI_SERVER_FQDN">>, <<"$CI_SERVER_HOST">>, <<"$CI_SERVER_URL">>>>
        hits == {i \in 1..Len(known) : HasPrefix(path, known[i] \o <<"/">>)}
        first == CHOOSE i \in hits : \A j \in hits : i <= j
        instance == IF hits = {} THEN << >> ELSE known[first]
        stripped == IF hits = {} THEN path ELSE TrimPrefix(path, known[first] \o <<"/">>)
        componentSplit == Split(stripped, glComponentVersionSeparator)
    IN  [instance |-> instance,
         cleanPath |-> IF Len(componentSplit) > 1 THEN componentSplit[1] ELSE stripped,
         version |-> IF Len(componentSplit) > 1 THEN componentSplit[2] ELSE << >>]

\* gitlab.GetFullGitlabCI against the answers w of the remote service
GetFullGitlabCI(project, w) ==
    LET mergedResponse == [Status |-> w.Status, Errors |-> w.Errors, Includes |-> w.Includes]
        gitlabConf == [GitlabJobs |-> w.ConfJobs]
        mergedConf == [GitlabJobs |-> w.MergedJobs]
        none == [Conf |-> Nil, MergedConf |-> Nil, MergedResponse |-> Nil,
                 ConfString |-> << >>, err |-> NoError]
    IN  IF project.Archived THEN none
        ELSE IF project.NotFound THEN none
        ELSE IF w.FileFetchError # NoError
             THEN [none EXCEPT !.err = w.FileFetchError]
        ELSE IF w.MergedFetchError # NoError
             THEN [none EXCEPT !.ConfString = w.ConfString, !.err = w.MergedFetchError]
        ELSE IF ~w.ConfYamlOk
             THEN [none EXCEPT !.MergedResponse = mergedResponse, !.ConfString = w.ConfString,
                               !.err = IF w.Status = "INVALID" THEN NoError
                                       ELSE <<"yaml: unmarshal errors">>]
        ELSE IF ~w.MergedYamlOk
             THEN [Conf |-> gitlabConf, MergedConf |-> Nil, MergedResponse |-> mergedResponse,
                   ConfString |-> w.ConfString, err |-> <<"yaml: unmarshal errors">>]
        ELSE [Conf |-> gitlabConf, MergedConf |-> mergedConf, MergedResponse |-> mergedResponse,
              ConfString |-> w.ConfString, err |-> NoError]

\* the three status flags Run derives from what GetFullGitlabCI returned
ClassifyCI_NotFoundIsInvalid(r, project) ==
    IF r.err # NoError
    THEN [CiValid |-> FALSE, CiMissing |-> FALSE, LimitedAnalysis |-> TRUE]
    ELSE IF r.MergedResponse # Nil
            /\ (Len(r.MergedResponse.Errors) > 0 \/ r.MergedResponse.Status = "INVALID")
    THEN IF r.ConfString = << >>
         THEN [CiValid |-> TRUE, CiMissing |-> TRUE, LimitedAnalysis |-> TRUE]
         ELSE [CiValid |-> FALSE, CiMissing |-> FALSE, LimitedAnalysis |-> TRUE]
    ELSE IF r.MergedResponse = Nil \/ r.MergedConf = Nil
    THEN [CiValid |-> TRUE, CiMissing |-> TRUE, LimitedAnalysis |-> TRUE]
    ELSE [CiValid |-> TRUE, CiMissing |-> FALSE, LimitedAnalysis |-> FALSE]

\* ClassifyCI that lets an empty configuration through to the full analysis
ClassifyCI_EmptyGoesOn(r, project) ==
    IF r.err # NoError
    THEN IF Contains(r.err, <<"4", "0", "4">>) /\ ~project.NotFound
         THEN [CiValid |-> TRUE, CiMissing |-> TRUE, LimitedAnalysis |-> TRUE]
         ELSE [CiValid |-> FALSE, CiMissing |-> FALSE, LimitedAnalysis |-> TRUE]
    ELSE IF r.MergedResponse # Nil
            /\ (Len(r.MergedResponse.Errors) > 0 \/ r.MergedResponse.Status = "INVALID")
    THEN IF r.ConfString = << >>
         THEN [CiValid |-> TRUE, CiMissing |-> TRUE, LimitedAnalysis |-> TRUE]
         ELSE [CiValid |-> FALSE, CiMissing |-> FALSE, LimitedAnalysis |-> TRUE]
    ELSE [CiValid |-> TRUE, CiMissing |-> FALSE, LimitedAnalysis |-> FALSE]

ClassifyCI(r, project) ==
    IF r.err # NoError
    THEN IF Contains(r.err, <<"4", "0", "4">>) /\ ~project.NotFound
         THEN [CiValid |-> TRUE, CiMissing |-> TRUE, LimitedAnalysis |-> TRUE]
         ELSE [CiValid |-> FALSE, CiMissing |-> FALSE, LimitedAnalysis |-> TRUE]
    ELSE IF r.MergedResponse # Nil
            /\ (Len(r.MergedResponse.Errors) > 0 \/ r.MergedResponse.Status = "INVALID")
    THEN IF r.ConfString = << >>
         THEN [CiValid |-> TRUE, CiMissing |-> TRUE, LimitedAnalysis |-> TRUE]
         ELSE [CiValid |-> FALSE, CiMissing |-> FALSE, LimitedAnalysis |-> TRUE]
    ELSE IF r.MergedResponse = Nil \/ r.MergedConf = Nil
    THEN [CiValid |-> TRUE, CiMissing |-> TRUE, LimitedAnalysis |-> TRUE]
    ELSE [CiValid |-> TRUE, CiMissing |-> FALSE, LimitedAnalysis |-> FALSE]

\* the (resource index, version name, clean path) of every catalog component, in loop order
CatalogEntries(resources, instanceURL) ==
    Flatten([i \in 1..Len(resources) |->
        Flatten([v \in 1..Len(resources[i].Versions) |->
            [c \in 1..Len(resources[i].Versions[v].Components) |->
                [index |-> i,
                 version |-> resources[i].Versions[v].Name,
                 cleanPath |-> ParseGitlabComponentPath(
                     resources[i].Versions[v].Components[c].IncludePath, instanceURL).cleanPath]]])])

\* data.GitlabCatalogComponentMap: clean path -> index of the last resource holding it
CatalogComponentMap(entries) ==
    [path \in {entries[k].cleanPath : k \in 1..Len(entries)} |->
        LET ks == {k \in 1..Len(entries) : entries[k].cleanPath = path}
        IN  entries[CHOOSE k \in ks : \A j \in ks : j <= k].index]

\* data.VersionMap: clean path -> version names, newest first
CatalogVersionMap(entries) ==
    [path \in {entries[k].cleanPath : k \in 1..Len(entries)} |->
        LET mine == Select(entries, {k \in 1..Len(entries) : entries[k].cleanPath = path})
        IN  SortVersions([k \in 1..Len(mine) |-> mine[k].version])]

\* gitlab.GetExtends: the list of extended jobs, never an error
GetExtends(extends) ==
    CASE extends.Type = "string" -> extends.Value
      [] extends.Type = "list" -> extends.Value
      [] OTHER -> << >>

\* gitlab.ParseGitlabCIJob: TRUE when the job content cannot be parsed
ParseGitlabCIJobFails(content) == content.Kind = "unparsable"

\* the Extends field of the parsed job (nil for a job that is not a map)
ParsedExtends(content) ==
    IF content.Kind = "map" THEN content.Extends ELSE [Type |-> "nil", Value |-> << >>]

\* ---- records of the collection ----

\* json.Marshal followed by utils.GenerateFNVHash: the fingerprint of an include
\* origin, determined by its three fields (hash collisions are not modelled)
GenerateOriginHash(includeOrigin) ==
    <<"fnv", includeOrigin.Location, includeOrigin.Type, includeOrigin.Project>>

\* the OriginHash of an Origin on which no hash was computed
ZeroHash == <<"fnv0">>

\* a zero GitlabPipelineJobGitlabComponent
NoComponent ==
    [RepoFullPath |-> << >>, RepoWebPath |-> << >>, RepoName |-> << >>,
     ComponentName |-> << >>, ComponentLatestVersion |-> << >>,
     ComponentIncludePath |-> << >>]

\* a zero GitlabPipelineOriginMetrics
ZeroMetrics ==
    [JobTotal |-> 0, JobHardcoded |-> 0, OriginTotal |-> 0, OriginComponent |-> 0,
     OriginLocal |-> 0, OriginProject |-> 0, OriginRemote |-> 0, OriginTemplate |-> 0,
     OriginGitLabCatalog |-> 0, OriginOutdated |-> 0]

\* an include declared in another project than the analysed one is nested
IsNested_Never(include, project) == FALSE

IsNested(include, project) == include.ContextProject # project.Path

\* the origin data Run derives from one include before looking at its jobs;
\* skip is TRUE when the loop moves on without recording anything
IncludeOrigin(include, project, cat, instanceURL) ==
    LET isNested == IsNested(include, project)
        includeOrigin == [Location |-> include.Location, Type |-> include.Type,
                          Project |-> include.Extra.Project]
        base == [OriginType |-> "", FromGitlabCatalog |-> FALSE,
                 GitlabIncludeOrigin |-> includeOrigin, GitlabComponent |-> NoComponent,
                 OriginHash |-> GenerateOriginHash(includeOrigin),
                 Version |-> << >>, UpToDate |-> FALSE, Nested |-> isNested, Jobs |-> << >>]
        latestRefs == <<gitHeadRef, project.DefaultBranch, pbLatestTag, glTildeLatestTag,
                        mainBranch, masterBranch>>
        parsed == ParseGitlabComponentPath(include.Location, instanceURL)
        withoutVersion == [includeOrigin EXCEPT !.Location = parsed.instance \o <<"/">> \o parsed.cleanPath]
        component == [base EXCEPT !.OriginType = originComponent,
                                  !.GitlabIncludeOrigin = withoutVersion,
                                  !.OriginHash = GenerateOriginHash(withoutVersion),
                                  !.Version = parsed.version]
        found == parsed.cleanPath \in DOMAIN cat.ComponentMap
        resource == cat.Resources[cat.ComponentMap[parsed.cleanPath]]
        versions == IF parsed.cleanPath \in DOMAIN cat.VersionMap
                    THEN cat.VersionMap[parsed.cleanPath] ELSE << >>
        latestVersion == IF Len(versions) > 0 THEN versions[1] ELSE << >>
        pathParts == Split(parsed.cleanPath, "/")
        componentName == pathParts[Len(pathParts)]
    IN  CASE include.Type = glOriginComponent ->
               IF ~found THEN [skip |-> FALSE, origin |-> component]
               ELSE IF componentName = << >> THEN [skip |-> TRUE, origin |-> component]
               ELSE [skip |-> FALSE,
                     origin |-> [component EXCEPT
                        !.FromGitlabCatalog = TRUE,
                        !.GitlabComponent =
                            [RepoFullPath |-> resource.FullPath \o <<"/">> \o componentName,
                             RepoWebPath |-> resource.WebPath,
                             RepoName |-> resource.Name,
                             ComponentName |-> componentName,
                             ComponentIncludePath |-> parsed.instance \o <<"/">> \o parsed.cleanPath,
                             ComponentLatestVersion |-> latestVersion],
                        !.UpToDate = IsUpToDate(parsed.version, latestVersion, latestRefs)]]
          [] include.Type = glOriginProject ->
               [skip |-> FALSE,
                origin |-> [base EXCEPT !.OriginType = originProject, !.Version = include.Extra.Ref]]
          [] include.Type = glOriginLocal ->
               [skip |-> FALSE, origin |-> [base EXCEPT !.OriginType = originLocal]]
          [] include.Type = glOriginRemote ->
               [skip |-> FALSE, origin |-> [base EXCEPT !.OriginType = originRemote]]
          [] include.Type = glOriginTemplate ->
               [skip |-> FALSE, origin |-> [base EXCEPT !.OriginType = originTemplate]]
          [] OTHER -> [skip |-> FALSE, origin |-> base]

\* gitlab.FetchGitlabInclude: TRUE when it returns an error for this include
\* and this answer of the expansion service
FetchGitlabIncludeFails(include, answer) ==
    \/ include.Type \notin {glOriginLocal, glOriginProject, glOriginTemplate,
                            glOriginRemote, glOriginComponent}
    \/ answer.Error
    \/ ~answer.YamlOk

\* one job of an include reaching the attribution code: flags are flipped when the
\* job is in the hardcoded map, then a copy of the job is added to the origin
AttributeJob_FlagsOnly(st, job) ==
    IF job \notin DOMAIN st.JobMap THEN st
    ELSE LET touched == job \in DOMAIN st.JobHardcodedMap
         IN  [JobMap |-> IF touched
                         THEN [st.JobMap EXCEPT ![job].IsHardocded = FALSE, ![job].IsOverridden = TRUE]
                         ELSE st.JobMap,
              JobHardcodedMap |-> IF touched THEN [st.JobHardcodedMap EXCEPT ![job] = FALSE]
                                  ELSE st.JobHardcodedMap,
              Jobs |-> st.Jobs]

\* the job is added to the origin without touching its flags
AttributeJob_KeepsFlags(st, job) ==
    IF job \notin DOMAIN st.JobMap THEN st
    ELSE [JobMap |-> st.JobMap,
          JobHardcodedMap |-> st.JobHardcodedMap,
          Jobs |-> Append(st.Jobs, st.JobMap[job])]

AttributeJob(st, job) ==
    IF job \notin DOMAIN st.JobMap THEN st
    ELSE LET touched == job \in DOMAIN st.JobHardcodedMap
             jm == IF touched
                   THEN [st.JobMap EXCEPT ![job].IsHardocded = FALSE, ![job].IsOverridden = TRUE]
                   ELSE st.JobMap
         IN  [JobMap |-> jm,
              JobHardcodedMap |-> IF touched THEN [st.JobHardcodedMap EXCEPT ![job] = FALSE]
                                  ELSE st.JobHardcodedMap,
              Jobs |-> Append(st.Jobs, jm[job])]

RECURSIVE AttributeJobs(_, _)
AttributeJobs(st, jobs) ==
    IF jobs = << >> THEN st
    ELSE AttributeJobs(AttributeJob(st, Head(jobs)), Tail(jobs))

\* every include starts from a table in which the jobs of the unexpanded
\* configuration are hardcoded again: only the last writer's flags survive
AttributeInclude_LastWriterOnly(jobMap, jobExtendsMap, jobHardcodedMap, jobsFromInclude) ==
    LET extending == Flatten([k \in 1..Len(jobsFromInclude) |->
                        IF jobsFromInclude[k] \in DOMAIN jobExtendsMap
                        THEN jobExtendsMap[jobsFromInclude[k]] ELSE << >>])
        reset == [n \in DOMAIN jobMap |->
                    [jobMap[n] EXCEPT !.IsHardocded = n \in DOMAIN jobHardcodedMap,
                                      !.IsOverridden = FALSE]]
    IN  AttributeJobs([JobMap |-> reset,
                       JobHardcodedMap |-> [n \in DOMAIN jobHardcodedMap |-> TRUE],
                       Jobs |-> << >>],
                      extending \o jobsFromInclude)

\* the two attribution loops over the jobs of one include: first the jobs that
\* extend a job of the include, then the jobs of the include themselves
AttributeInclude(jobMap, jobExtendsMap, jobHardcodedMap, jobsFromInclude) ==
    LET extending == Flatten([k \in 1..Len(jobsFromInclude) |->
                        IF jobsFromInclude[k] \in DOMAIN jobExtendsMap
                        THEN jobExtendsMap[jobsFromInclude[k]] ELSE << >>])
    IN  AttributeJobs([JobMap |-> jobMap, JobHardcodedMap |-> jobHardcodedMap, Jobs |-> << >>],
                      extending \o jobsFromInclude)

RECURSIVE AddExtends(_, _, _)
\* job `name` is recorded under every job it extends
AddExtends(m, sources, name) ==
    IF sources = << >> THEN m
    ELSE AddExtends(MapPut(m, Head(sources),
                      Append(IF Head(sources) \in DOMAIN m THEN m[Head(sources)] ELSE << >>,
                             name)),
                    Tail(sources), name)

RECURSIVE BuildJobTable(_, _, _, _)
\* the loop over the jobs of the merged configuration, taken in the given order;
\* it stops at the first job that cannot be parsed
BuildJobTable(order, mergedJobs, hardcoded, acc) ==
    IF order = << >> THEN acc
    ELSE LET name == Head(order)
             content == mergedJobs[name]
             extends == IF ParsedExtends(content).Type # "nil"
                        THEN GetExtends(ParsedExtends(content)) ELSE << >>
             jobData == [Name |-> name, Extends |-> extends,
                         IsHardocded |-> name \in DOMAIN hardcoded, IsOverridden |-> FALSE]
         IN  IF ParseGitlabCIJobFails(content)
             THEN [acc EXCEPT !.err = <<"yaml: cannot unmarshal job">>]
             ELSE BuildJobTable(Tail(order), mergedJobs, hardcoded,
                     [JobMap |-> MapPut(acc.JobMap, name, jobData),
                      JobExtendsMap |-> AddExtends(acc.JobExtendsMap, extends, name),
                      err |-> NoError])

\* the origin that collects the jobs still flagged hardcoded, in the given order
HardcodedOrigin_Untyped(jobMap, order) ==
    [OriginType |-> "", FromGitlabCatalog |-> FALSE,
     GitlabIncludeOrigin |-> [Location |-> << >>, Type |-> "", Project |-> << >>],
     GitlabComponent |-> NoComponent, OriginHash |-> ZeroHash,
     Version |-> << >>, UpToDate |-> FALSE, Nested |-> FALSE,
     Jobs |-> [k \in 1..Len(order) |-> jobMap[order[k]]]]

HardcodedOrigin(jobMap, order) ==
    [OriginType |-> originHardcoded, FromGitlabCatalog |-> FALSE,
     GitlabIncludeOrigin |-> [Location |-> << >>, Type |-> "", Project |-> << >>],
     GitlabComponent |-> NoComponent, OriginHash |-> ZeroHash,
     Version |-> << >>, UpToDate |-> FALSE, Nested |-> FALSE,
     Jobs |-> [k \in 1..Len(order) |-> jobMap[order[k]]]]

\* the metrics computed at the end of Run
ComputeMetrics(jobMap, jobHardcodedMap, origins) ==
    LET OfType(t) == Cardinality({k \in 1..Len(origins) : origins[k].OriginType = t})
    IN  [JobTotal |-> Cardinality(DOMAIN jobMap),
         JobHardcoded |-> Cardinality({n \in DOMAIN jobHardcodedMap : jobHardcodedMap[n]}),
         OriginTotal |-> Len(origins),
         OriginComponent |-> OfType(originComponent),
         OriginLocal |-> OfType(originLocal),
         OriginProject |-> OfType(originProject),
         OriginRemote |-> OfType(originRemote),
         OriginTemplate |-> OfType(originTemplate),
         OriginGitLabCatalog |-> Cardinality({k \in 1..Len(origins) : origins[k].FromGitlabCatalog}),
         OriginOutdated |-> Cardinality({k \in 1..Len(origins) :
                               origins[k].FromGitlabCatalog /\ ~origins[k].UpToDate})]

\* ---- inputs of the collection: what the remote service answers ----

MaxIncludes == 2

JobNames == {"a", "t"}

GitlabURL == <<"https://", "h">>

ProjectPath == "g/p"
OtherProjectPath == "g/q"

\* job contents of the merged configuration
PlainJob == [Kind |-> "map", Extends |-> [Type |-> "nil", Value |-> << >>]]
ExtendingJob == [Kind |-> "map", Extends |-> [Type |-> "string", Value |-> <<"t">>]]
BadExtendsJob == [Kind |-> "map", Extends |-> [Type |-> "other", Value |-> << >>]]
UnparsableJob == [Kind |-> "unparsable", Extends |-> [Type |-> "nil", Value |-> << >>]]
JobContents == {PlainJob, ExtendingJob, BadExtendsJob, UnparsableJob}

\* the jobs of a merged configuration: job "t" is plain, job "a" is anything
MergedJobChoices ==
    {f \in UNION {[S -> JobContents] : S \in SUBSET JobNames} :
        "t" \in DOMAIN f => f["t"] = PlainJob}

\* entries of the inclusion list of the expansion service
ComponentInclude ==
    [Location |-> <<"h", "/", "g", "/", "c", "@", "1">>, Type |-> glOriginComponent,
     ContextProject |-> ProjectPath, Extra |-> [Project |-> << >>, Ref |-> << >>]]
NestedComponentInclude ==
    [Location |-> <<"h", "/", "g", "/", "c", "@", "2">>, Type |-> glOriginComponent,
     ContextProject |-> OtherProjectPath, Extra |-> [Project |-> << >>, Ref |-> << >>]]
NamelessComponentInclude ==
    [Location |-> <<"h", "/", "g", "/", "@", "1">>, Type |-> glOriginComponent,
     ContextProject |-> ProjectPath, Extra |-> [Project |-> << >>, Ref |-> << >>]]
NestedNamelessComponentInclude ==
    [Location |-> <<"h", "/", "g", "/", "@", "2">>, Type |-> glOriginComponent,
     ContextProject |-> OtherProjectPath, Extra |-> [Project |-> << >>, Ref |-> << >>]]
LocalInclude ==
    [Location |-> <<"l.yml">>, Type |-> glOriginLocal,
     ContextProject |-> ProjectPath, Extra |-> [Project |-> << >>, Ref |-> << >>]]
NestedFileInclude ==
    [Location |-> <<"f.yml">>, Type |-> glOriginProject,
     ContextProject |-> OtherProjectPath, Extra |-> [Project |-> <<"g/r">>, Ref |-> mainBranch]]
UnknownTypeInclude ==
    [Location |-> <<"u.yml">>, Type |-> "artifact",
     ContextProject |-> ProjectPath, Extra |-> [Project |-> << >>, Ref |-> << >>]]
IncludeChoices ==
    {ComponentInclude, NestedComponentInclude, NamelessComponentInclude,
     NestedNamelessComponentInclude, LocalInclude, NestedFileInclude, UnknownTypeInclude}

\* the catalog: one resource with two versions of component g/c, and one
\* component entry whose include path ends with "/"
CatalogResource ==
    [FullPath |-> <<"g">>, WebPath |-> <<"/", "g">>, Name |-> <<"G">>,
     Versions |-> <<
        [Name |-> <<"1">>, Components |-> <<[IncludePath |-> <<"h", "/", "g", "/", "c">>]>>],
        [Name |-> <<"2">>, Components |-> <<[IncludePath |-> <<"h", "/", "g", "/", "c">>],
                                           [IncludePath |-> <<"h", "/", "g", "/">>]>>]>>]

\* error messages of the file fetch: status 404, status 500, and status 500 on
\* a path that contains the digits 404
FileFetchErrors ==
    {<<"GET /files: ", "4", "0", "4", " Not Found">>,
     <<"GET /files: ", "5", "0", "0">>,
     <<"GET /projects/1", "4", "0", "4", "/files: ", "5", "0", "0">>}

GraphQLError == <<"graphql: server error">>

TheProject(archived) ==
    [Path |-> ProjectPath, Archived |-> archived, NotFound |-> FALSE, IsGroup |-> FALSE,
     DefaultBranch |-> <<"dev">>]

\* a service that answers everything
GoodWorld ==
    [Project |-> TheProject(FALSE), FileFetchError |-> NoError, ConfString |-> <<"jobs">>,
     MergedFetchError |-> NoError, ConfYamlOk |-> TRUE, Status |-> "VALID", Errors |-> << >>,
     MergedYamlOk |-> TRUE, ConfJobs |-> {"a"}, MergedJobs |-> [n \in {"a"} |-> PlainJob],
     Includes |-> << >>, CatalogError |-> FALSE]

\* every way the retrieval of the top-level configuration can go
RetrievalWorlds ==
    {[GoodWorld EXCEPT !.Project = TheProject(archived), !.FileFetchError = fileErr,
                       !.ConfString = confString, !.MergedFetchError = mergedErr,
                       !.ConfYamlOk = confOk, !.Status = status, !.Errors = errors,
                       !.MergedYamlOk = mergedOk] :
        archived \in BOOLEAN, fileErr \in FileFetchErrors \cup {NoError},
        confString \in {<< >>, <<"jobs">>}, mergedErr \in {NoError, GraphQLError},
        confOk \in BOOLEAN, status \in {"VALID", "INVALID"},
        errors \in {<< >>, <<"jobs config should contain at least one visible job">>},
        mergedOk \in BOOLEAN}

\* every content of a configuration that is retrieved and valid
ContentWorlds ==
    {[GoodWorld EXCEPT !.ConfJobs = confJobs, !.MergedJobs = mergedJobs,
                       !.Includes = includes, !.CatalogError = catalogError] :
        confJobs \in SUBSET JobNames, mergedJobs \in MergedJobChoices,
        includes \in SeqsUpTo(IncludeChoices, MaxIncludes), catalogError \in BOOLEAN}

Worlds == RetrievalWorlds \cup ContentWorlds

\* answers of the expansion service to the fetch of one include
IncludeAnswers ==
    {[Error |-> TRUE, YamlOk |-> TRUE, Jobs |-> {}],
     [Error |-> FALSE, YamlOk |-> FALSE, Jobs |-> {}]}
    \cup {[Error |-> FALSE, YamlOk |-> TRUE, Jobs |-> S] : S \in SUBSET JobNames}

\* ---- the collection as a state machine ----

InitOrigin ==
    /\ pc = "getci"
    /\ world \in Worlds
    /\ ci = Nil
    /\ flags = [CiValid |-> TRUE, CiMissing |-> FALSE, LimitedAnalysis |-> FALSE]
    /\ catalog = [Resources |-> << >>, ComponentMap |-> EmptyMap, VersionMap |-> EmptyMap]
    /\ JobMap = EmptyMap
    /\ JobExtendsMap = EmptyMap
    /\ JobHardcodedMap = EmptyMap
    /\ Origins = << >>
    /\ idx = 0
    /\ fetchLog = << >>
    /\ metrics = ZeroMetrics
    /\ BranchUnused
    /\ RunUnused
    /\ ImageUnused
    /\ FurtherUnused

\* GetFullGitlabCI and the classification of its result; a limited analysis
\* returns at once, without an error
FetchCI ==
    /\ pc = "getci"
    /\ ci' = GetFullGitlabCI(world.Project, world)
    /\ flags' = ClassifyCI(ci', world.Project)
    /\ pc' = IF flags'.LimitedAnalysis THEN "done" ELSE "catalog"
    /\ UNCHANGED <<world, catalog, JobMap, JobExtendsMap, JobHardcodedMap, Origins, idx,
                   fetchLog, metrics>>
    /\ UNCHANGED <<bpVars, runVars, imageVars, furtherVars>>

\* FetchCatalog that returns the error of a failed catalog request
FetchCatalog_FailureAborts ==
    /\ pc = "catalog"
    /\ LET resources == IF world.CatalogError THEN << >> ELSE <<CatalogResource>>
           entries == CatalogEntries(resources, GitlabURL)
       IN  catalog' = [Resources |-> resources,
                       ComponentMap |-> CatalogComponentMap(entries),
                       VersionMap |-> CatalogVersionMap(entries)]
    /\ pc' = IF world.CatalogError THEN "error" ELSE "jobs"
    /\ UNCHANGED <<world, ci, flags, JobMap, JobExtendsMap, JobHardcodedMap, Origins, idx,
                   fetchLog, metrics>>
    /\ UNCHANGED <<bpVars, runVars, imageVars, furtherVars>>

\* GetGitlabCIComponentResources (a failure is only logged) and the lookup maps
FetchCatalog ==
    /\ pc = "catalog"
    /\ LET resources == IF world.CatalogError THEN << >> ELSE <<CatalogResource>>
           entries == CatalogEntries(resources, GitlabURL)
       IN  catalog' = [Resources |-> resources,
                       ComponentMap |-> CatalogComponentMap(entries),
                       VersionMap |-> CatalogVersionMap(entries)]
    /\ pc' = "jobs"
    /\ UNCHANGED <<world, ci, flags, JobMap, JobExtendsMap, JobHardcodedMap, Origins, idx,
                   fetchLog, metrics>>
    /\ UNCHANGED <<bpVars, runVars, imageVars, furtherVars>>

\* the hardcoded map from the unexpanded configuration, then the job table from
\* the merged configuration; Go visits the jobs of a map in any order
BuildJobs ==
    /\ pc = "jobs"
    /\ LET hardcoded == [n \in ci.Conf.GitlabJobs |-> TRUE]
       IN  /\ JobHardcodedMap' = hardcoded
           /\ \E order \in Orderings(DOMAIN ci.MergedConf.GitlabJobs) :
                LET table == BuildJobTable(order, ci.MergedConf.GitlabJobs, hardcoded,
                                [JobMap |-> EmptyMap, JobExtendsMap |-> EmptyMap, err |-> NoError])
                IN  /\ JobMap' = table.JobMap
                    /\ JobExtendsMap' = table.JobExtendsMap
                    /\ pc' = IF table.err # NoError THEN "error" ELSE "includes"
    /\ UNCHANGED <<world, ci, flags, catalog, Origins, idx, fetchLog, metrics>>
    /\ UNCHANGED <<bpVars, runVars, imageVars, furtherVars>>

\* the loop returns the error of a failed fetch instead of moving on
HandleInclude_FailedFetchAborts ==
    /\ pc = "includes"
    /\ idx < Len(ci.MergedResponse.Includes)
    /\ idx' = idx + 1
    /\ LET include == ci.MergedResponse.Includes[idx + 1]
           o == IncludeOrigin(include, world.Project, catalog, GitlabURL)
       IN  IF o.skip
           THEN UNCHANGED <<pc, JobMap, JobHardcodedMap, Origins, fetchLog>>
           ELSE IF o.origin.Nested
           THEN /\ Origins' = Append(Origins, o.origin)
                /\ UNCHANGED <<pc, JobMap, JobHardcodedMap, fetchLog>>
           ELSE \E answer \in IncludeAnswers : \E jobsFromInclude \in Orderings(answer.Jobs) :
                  IF FetchGitlabIncludeFails(include, answer)
                  THEN /\ fetchLog' = Append(fetchLog, [Index |-> idx + 1, Failed |-> TRUE,
                                                         Jobs |-> << >>])
                       /\ pc' = "error"
                       /\ UNCHANGED <<JobMap, JobHardcodedMap, Origins>>
                  ELSE LET st == AttributeInclude(JobMap, JobExtendsMap, JobHardcodedMap,
                                                  jobsFromInclude)
                       IN  /\ fetchLog' = Append(fetchLog, [Index |-> idx + 1, Failed |-> FALSE,
                                                             Jobs |-> jobsFromInclude])
                           /\ JobMap' = st.JobMap
                           /\ JobHardcodedMap' = st.JobHardcodedMap
                           /\ Origins' = Append(Origins, [o.origin EXCEPT !.Jobs = st.Jobs])
                           /\ pc' = pc
    /\ UNCHANGED <<world, ci, flags, catalog, JobExtendsMap, metrics>>
    /\ UNCHANGED <<bpVars, runVars, imageVars, furtherVars>>

\* one iteration of the loop over the inclusion list of the merged response
HandleInclude ==
    /\ pc = "includes"
    /\ idx < Len(ci.MergedResponse.Includes)
    /\ idx' = idx + 1
    /\ LET include == ci.MergedResponse.Includes[idx + 1]
           o == IncludeOrigin(include, world.Project, catalog, GitlabURL)
       IN  IF o.skip
           THEN UNCHANGED <<JobMap, JobHardcodedMap, Origins, fetchLog>>
           ELSE IF o.origin.Nested
           THEN /\ Origins' = Append(Origins, o.origin)
                /\ UNCHANGED <<JobMap, JobHardcodedMap, fetchLog>>
           ELSE \E answer \in IncludeAnswers : \E jobsFromInclude \in Orderings(answer.Jobs) :
                  IF FetchGitlabIncludeFails(include, answer)
                  THEN /\ fetchLog' = Append(fetchLog, [Index |-> idx + 1, Failed |-> TRUE,
                                                         Jobs |-> << >>])
                       /\ UNCHANGED <<JobMap, JobHardcodedMap, Origins>>
                  ELSE LET st == AttributeInclude(JobMap, JobExtendsMap, JobHardcodedMap,
                                                  jobsFromInclude)
                       IN  /\ fetchLog' = Append(fetchLog, [Index |-> idx + 1, Failed |-> FALSE,
                                                             Jobs |-> jobsFromInclude])
                           /\ JobMap' = st.JobMap
                           /\ JobHardcodedMap' = st.JobHardcodedMap
                           /\ Origins' = Append(Origins, [o.origin EXCEPT !.Jobs = st.Jobs])
    /\ UNCHANGED <<pc, world, ci, flags, catalog, JobExtendsMap, metrics>>
    /\ UNCHANGED <<bpVars, runVars, imageVars, furtherVars>>

\* after the last include: the origin of the hardcoded jobs, then the metrics
Finish ==
    /\ pc = "includes"
    /\ idx = Len(ci.MergedResponse.Includes)
    /\ \E order \in Orderings({n \in DOMAIN JobHardcodedMap :
                                  JobHardcodedMap[n] /\ n \in DOMAIN JobMap}) :
         LET hardcodedOrigin == HardcodedOrigin(JobMap, order)
         IN  /\ Origins' = Append(Origins, hardcodedOrigin)
             /\ metrics' = ComputeMetrics(JobMap, JobHardcodedMap, Origins')
    /\ pc' = "done"
    /\ UNCHANGED <<world, ci, flags, catalog, JobMap, JobExtendsMap, JobHardcodedMap, idx,
                   fetchLog>>
    /\ UNCHANGED <<bpVars, runVars, imageVars, furtherVars>>

NextOrigin == FetchCI \/ FetchCatalog \/ BuildJobs \/ HandleInclude \/ Finish

SpecOrigin == InitOrigin /\ [][NextOrigin]_vars

------------------------------------------------------------------------------
(* Claims about the pipeline origin data collection (SpecOrigin)            *)

\* Run has returned without error after a non-limited analysis
CompletedNonLimited == pc = "done" /\ ~flags.LimitedAnalysis

\* names of the jobs in the job list of origin k
OriginJobNames(k) == {Origins[k].Jobs[j].Name : j \in 1..Len(Origins[k].Jobs)}

\* the inclusion list returned by the expansion service
Inclusions == ci.MergedResponse.Includes

\* inclusion k is declared in another project than the analysed one
NestedInclusion(k) == Inclusions[k].ContextProject # world.Project.Path

\* inclusion k is a component found in the catalog under a path with an empty last segment
NamelessCatalogComponent(k) ==
    /\ Inclusions[k].Type = glOriginComponent
    /\ LET cleanPath == ParseGitlabComponentPath(Inclusions[k].Location, GitlabURL).cleanPath
       IN  /\ cleanPath \in DOMAIN catalog.ComponentMap
           /\ (cleanPath = << >> \/ cleanPath[Len(cleanPath)] = "/")

\* the fetch of the jobs of inclusion k was attempted and failed
FetchFailed(k) == \E e \in 1..Len(fetchLog) : fetchLog[e].Index = k /\ fetchLog[e].Failed

\* the fetch of the jobs of inclusion k was attempted
FetchAttempted(k) == \E e \in 1..Len(fetchLog) : fetchLog[e].Index = k

C9_OneOriginPerInclusion ==
    CompletedNonLimited =>
        /\ Len(Origins) = Len(Inclusions) + 1
        /\ Origins[Len(Origins)].OriginType = originHardcoded
        /\ \A k \in 1..(Len(Origins) - 1) :
              /\ Origins[k].OriginType # originHardcoded
              /\ Origins[k].GitlabIncludeOrigin.Type = Inclusions[k].Type

\* the inclusion occurrences that get an Origin: those that are not skipped as
\* nameless catalog components and are either nested or fetched successfully
RecordedInclusions ==
    {k \in 1..Len(Inclusions) :
        ~NamelessCatalogComponent(k) /\ (NestedInclusion(k) \/ ~FetchFailed(k))}

\* the i-th smallest element of a finite set of numbers
Nth(S, i) == CHOOSE x \in S : Cardinality({y \in S : y < x}) = i - 1

\* C9 (amended): a completed non-limited run produces exactly one Origin, in
\* order and without merging repeated occurrences, per inclusion occurrence that
\* is nested or whose job fetch succeeded (an inclusion whose fetch failed, or a
\* catalog component with an empty name, gets none), followed by exactly one
\* hardcoded Origin, which is the last element of the Origin list.
C9_OneOriginPerRecordedInclusion ==
    CompletedNonLimited =>
        /\ Len(Origins) = Cardinality(RecordedInclusions) + 1
        /\ Origins[Len(Origins)].OriginType = originHardcoded
        /\ \A i \in 1..(Len(Origins) - 1) :
              /\ Origins[i].OriginType # originHardcoded
              /\ Origins[i].GitlabIncludeOrigin.Type = Inclusions[Nth(RecordedInclusions, i)].Type
              /\ Origins[i].Nested = NestedInclusion(Nth(RecordedInclusions, i))

\* a completed run over two inclusions: the fetch of the first one failed, the
\* second one is recorded, and the Origin list holds it and the hardcoded Origin
C9_Witness ==
    /\ CompletedNonLimited
    /\ Len(Inclusions) = 2
    /\ FetchFailed(1)
    /\ 2 \in RecordedInclusions
    /\ Len(Origins) = 2

\* C10: handling a nested inclusion fetches no jobs, changes no job's hardcoded
\* or overridden flag, and the Origin recorded for it is marked nested and has
\* an empty job list (the one inclusion that gets no Origin at all is a catalog
\* component with an empty name).
C10_NestedContributesNothing ==
    [][(pc = "includes" /\ idx' = idx + 1 /\ NestedInclusion(idx + 1)) =>
          /\ fetchLog' = fetchLog
          /\ JobMap' = JobMap
          /\ JobHardcodedMap' = JobHardcodedMap
          /\ IF NamelessCatalogComponent(idx + 1)
             THEN Origins' = Origins
             ELSE /\ Len(Origins') = Len(Origins) + 1
                  /\ Origins'[Len(Origins')].Nested
                  /\ Origins'[Len(Origins')].Jobs = << >>
                  /\ \A k \in 1..Len(Origins) : Origins'[k] = Origins[k]]_vars

\* a nested inclusion has been handled while the job table holds a hardcoded
\* job, and a non-nested inclusion was fetched in the same run
C10_Witness ==
    /\ pc = "includes"
    /\ idx >= 1
    /\ NestedInclusion(idx)
    /\ Origins # << >> /\ Origins[Len(Origins)].Nested
    /\ \E n \in DOMAIN JobMap : JobMap[n].IsHardocded
    /\ fetchLog # << >>

\* the jobs of the unexpanded configuration
ConfJobs == DOMAIN JobHardcodedMap

\* the step handles an inclusion and records an Origin with job n in its job list
AttributedInStep(n) ==
    /\ pc = "includes" /\ idx' = idx + 1
    /\ Len(Origins') = Len(Origins) + 1
    /\ \E j \in 1..Len(Origins'[Len(Origins')].Jobs) : Origins'[Len(Origins')].Jobs[j].Name = n

\* C11: when a non-nested inclusion attributes a job of the unexpanded
\* configuration (by name, or because the job extends a job of the inclusion),
\* the job's hardcoded flag becomes false and its overridden flag true; no later
\* step of the run changes these flags back or removes a job from the job table.
C11_AttributionFlipsFlagsForGood ==
    [][/\ DOMAIN JobMap \subseteq DOMAIN JobMap'
       /\ \A n \in DOMAIN JobMap :
            /\ (n \in ConfJobs /\ AttributedInStep(n)) =>
                   /\ ~JobMap'[n].IsHardocded
                   /\ JobMap'[n].IsOverridden
                   /\ ~JobHardcodedMap'[n]
            /\ JobMap[n].IsOverridden => JobMap'[n].IsOverridden
            /\ ~JobMap[n].IsHardocded => ~JobMap'[n].IsHardocded]_vars

\* a job of the unexpanded configuration is in the job lists of two inclusion
\* Origins: attributed by one inclusion and again by a later one
C11_Witness ==
    /\ pc = "includes"
    /\ Len(Origins) = 2
    /\ \E n \in DOMAIN JobMap :
          /\ n \in ConfJobs
          /\ n \in OriginJobNames(1) /\ n \in OriginJobNames(2)
          /\ JobMap[n].IsOverridden /\ ~JobMap[n].IsHardocded

\* the fetches of the run that returned a job list, in the order of the run
SuccessfulFetches == Select(fetchLog, {e \in 1..Len(fetchLog) : ~fetchLog[e].Failed})

\* the job table and the hardcoded map as they were before the first inclusion
TableBeforeIncludes ==
    [JobMap |-> [n \in DOMAIN JobMap |->
                    [JobMap[n] EXCEPT !.IsHardocded = n \in ConfJobs, !.IsOverridden = FALSE]],
     JobHardcodedMap |-> [n \in ConfJobs |-> TRUE]]

RECURSIVE Replay(_, _, _)
\* the table after the attribution loops have run over the fetches in the given order
Replay(table, fetches, order) ==
    IF order = << >> THEN table
    ELSE LET st == AttributeInclude(table.JobMap, JobExtendsMap, table.JobHardcodedMap,
                                    fetches[Head(order)].Jobs)
         IN  Replay([JobMap |-> st.JobMap, JobHardcodedMap |-> st.JobHardcodedMap],
                    fetches, Tail(order))

\* C12: the hardcoded and overridden flags of every job are the same for every
\* order in which the inclusions handled so far could have been processed, and
\* a job of the unexpanded configuration that any inclusion attributed is not
\* hardcoded.
C12_FlagsIndependentOfOrder ==
    (pc \in {"includes", "done"} /\ ~flags.LimitedAnalysis) =>
        /\ \A order \in Orderings(1..Len(SuccessfulFetches)) :
              LET replayed == Replay(TableBeforeIncludes, SuccessfulFetches, order)
              IN  /\ replayed.JobMap = JobMap
                  /\ replayed.JobHardcodedMap = JobHardcodedMap
        /\ \A n \in ConfJobs \cap DOMAIN JobMap :
              (\E k \in 1..Len(Origins) :
                    Origins[k].OriginType # originHardcoded /\ n \in OriginJobNames(k))
                  => ~JobMap[n].IsHardocded /\ JobMap[n].IsOverridden

\* a completed run with two fetched inclusions of which only the first one
\* attributed some job of the unexpanded configuration
C12_Witness ==
    /\ CompletedNonLimited
    /\ Len(SuccessfulFetches) = 2
    /\ Len(Origins) = 3
    /\ \E n \in ConfJobs \cap DOMAIN JobMap :
          /\ n \in OriginJobNames(1) /\ n \notin OriginJobNames(2)
          /\ JobMap[n].IsOverridden

------------------------------------------------------------------------------
(* One run of the analyze command (runAnalyze and control.RunAnalysis)      *)

\* float64 percentages are kept exactly, as integers counting sixths of a
\* percent: the mean of up to three control results is then an integer
ComplianceScale == 6

\* the values of --threshold tried: below range, 0, 50, 100, above range
Thresholds == {-1, 0, 50, 100, 101}

\* a control result: &Gitlab...Result{Compliance, Skipped}
ControlResult(c, skipped) == [Compliance |-> c, Skipped |-> skipped]

\* the result RunAnalysis stores when a data collection failed
FailedCollectionResult == ControlResult(0, FALSE)

\* GitlabImageMutableConf.Run and GitlabImageUntrustedConf.Run: 100 unless the
\* control is enabled and the configuration is invalid, missing or has issues
ImageControlRun(enabled, ciValid, ciMissing, hasIssues) ==
    IF ~enabled THEN ControlResult(100, TRUE)
    ELSE IF ~ciValid \/ ciMissing THEN ControlResult(0, FALSE)
    ELSE IF hasIssues THEN ControlResult(0, FALSE)
    ELSE ControlResult(100, FALSE)

\* GitlabBranchProtectionControl.Run for an enabled control
BranchProtectionRun(hasIssues) ==
    IF hasIssues THEN ControlResult(0, FALSE) ELSE ControlResult(100, FALSE)

\* &AnalysisResult{ProjectPath: conf.ProjectPath}
EmptyResult ==
    [CiValid |-> FALSE, CiMissing |-> FALSE, PipelineOriginMetrics |-> Nil,
     PipelineImageMetrics |-> Nil, ImageMutableResult |-> Nil,
     ImageUntrustedResult |-> Nil, BranchProtectionResult |-> Nil]

\* the control results that count: present and not skipped
CountedResults(r) ==
    {f \in {"ImageMutableResult", "ImageUntrustedResult", "BranchProtectionResult"} :
        r[f] # Nil /\ ~r[f].Skipped}

RECURSIVE SumCompliance(_, _)
SumCompliance(r, fields) ==
    IF fields = {} THEN 0
    ELSE LET f == CHOOSE x \in fields : TRUE
         IN  r[f].Compliance + SumCompliance(r, fields \ {f})

\* runAnalyze: the average of the counted control results, 100 when there is none
OverallCompliance_ZeroWhenNoControl(r) ==
    IF CountedResults(r) = {} THEN 0
    ELSE (SumCompliance(r, CountedResults(r)) * ComplianceScale) \div Cardinality(CountedResults(r))

OverallCompliance(r) ==
    IF CountedResults(r) = {} THEN 100 * ComplianceScale
    ELSE (SumCompliance(r, CountedResults(r)) * ComplianceScale) \div Cardinality(CountedResults(r))

InitRun ==
    /\ runPc = "start"
    /\ cli \in [Token : BOOLEAN, Threshold : Thresholds, ConfigOk : BOOLEAN]
    /\ result = EmptyResult
    /\ raErr = NoError
    /\ compliance = 0
    /\ exitCode = 0
    /\ pc = "unused"
    /\ world \in RetrievalWorlds
    /\ ci = Nil
    /\ flags = [CiValid |-> TRUE, CiMissing |-> FALSE, LimitedAnalysis |-> FALSE]
    /\ catalog = Unused /\ JobMap = Unused /\ JobExtendsMap = Unused
    /\ JobHardcodedMap = Unused /\ Origins = Unused /\ idx = 0
    /\ fetchLog = Unused /\ metrics = Unused
    /\ BranchUnused
    /\ ImageUnused
    /\ FurtherUnused

\* what a step of the run leaves alone besides the variables it names
RunFrame == UNCHANGED <<bpVars, imageVars, furtherVars, pc, catalog, JobMap, JobExtendsMap, JobHardcodedMap,
                        Origins, idx, fetchLog, metrics, cli, world>>

\* runAnalyze up to the call of RunAnalysis: the token, the threshold and the
\* configuration file are checked, each failure ends the command with an error
StartAnalyze ==
    /\ runPc = "start"
    /\ IF ~cli.Token \/ cli.Threshold < 0 \/ cli.Threshold > 100 \/ ~cli.ConfigOk
       THEN runPc' = "exit" /\ exitCode' = 1
       ELSE runPc' = "project" /\ exitCode' = exitCode
    /\ UNCHANGED <<result, raErr, compliance, ci, flags>>
    /\ RunFrame

\* RunAnalysis: gitlab.FetchProjectDetails
FetchProject ==
    /\ runPc = "project"
    /\ \E fetched \in BOOLEAN :
         IF fetched
         THEN runPc' = "origin" /\ UNCHANGED <<result, raErr>>
         ELSE /\ result' = [result EXCEPT !.CiValid = FALSE, !.CiMissing = TRUE,
                                          !.ImageMutableResult = FailedCollectionResult]
              /\ raErr' = <<"project not found">>
              /\ runPc' = "analysed"
    /\ UNCHANGED <<compliance, exitCode, ci, flags>>
    /\ RunFrame

\* RunAnalysis: the pipeline origin data collection; past the retrieval of the
\* configuration the collection either completes or fails on a job it cannot parse
RunOrigin ==
    /\ runPc = "origin"
    /\ ci' = GetFullGitlabCI(world.Project, world)
    /\ flags' = ClassifyCI(ci', world.Project)
    /\ \E parsed \in BOOLEAN :
         IF ~flags'.LimitedAnalysis /\ ~parsed
         THEN /\ result' = [result EXCEPT !.CiValid = FALSE, !.CiMissing = TRUE,
                                          !.ImageMutableResult = FailedCollectionResult]
              /\ raErr' = <<"yaml: cannot unmarshal job">>
              /\ runPc' = "analysed"
         ELSE /\ result' = [result EXCEPT !.CiValid = flags'.CiValid,
                                          !.CiMissing = flags'.CiMissing,
                                          !.PipelineOriginMetrics = ZeroMetrics]
              /\ raErr' = raErr
              /\ runPc' = IF flags'.LimitedAnalysis THEN "analysed" ELSE "image"
    /\ UNCHANGED <<compliance, exitCode>>
    /\ RunFrame

\* RunAnalysis: the pipeline image data collection
RunImage ==
    /\ runPc = "image"
    /\ \E collected \in BOOLEAN :
         IF collected
         THEN /\ result' = [result EXCEPT !.PipelineImageMetrics = [Total |-> 0]]
              /\ raErr' = raErr
              /\ runPc' = "controls"
         ELSE /\ result' = [result EXCEPT !.ImageMutableResult = FailedCollectionResult]
              /\ raErr' = <<"unable to retrieve default image">>
              /\ runPc' = "analysed"
    /\ UNCHANGED <<compliance, exitCode, ci, flags>>
    /\ RunFrame

\* RunAnalysis: the three controls, in order; a control configuration that
\* cannot be loaded ends the analysis with an error
RunControls ==
    /\ runPc = "controls"
    /\ \E mutableConf, untrustedConf \in {"missing", "disabled", "enabled"},
          branchConf \in {"disabled", "enabled"},
          mutableIssues, untrustedIssues, protectionCollected, branchIssues \in BOOLEAN :
         LET mutableResult == ImageControlRun(mutableConf = "enabled", flags.CiValid,
                                              flags.CiMissing, mutableIssues)
             untrustedResult == ImageControlRun(untrustedConf = "enabled", flags.CiValid,
                                                flags.CiMissing, untrustedIssues)
             branchResult == IF ~protectionCollected THEN FailedCollectionResult
                             ELSE BranchProtectionRun(branchIssues)
         IN  IF mutableConf = "missing"
             THEN /\ raErr' = <<"invalid configuration">>
                  /\ result' = result
             ELSE IF untrustedConf = "missing"
             THEN /\ raErr' = <<"invalid configuration">>
                  /\ result' = [result EXCEPT !.ImageMutableResult = mutableResult]
             ELSE /\ raErr' = raErr
                  /\ result' = [result EXCEPT
                        !.ImageMutableResult = mutableResult,
                        !.ImageUntrustedResult = untrustedResult,
                        !.BranchProtectionResult =
                            IF branchConf = "enabled" THEN branchResult ELSE Nil]
    /\ runPc' = "analysed"
    /\ UNCHANGED <<compliance, exitCode, ci, flags>>
    /\ RunFrame

\* Conclude that also fails a compliance equal to the threshold
Conclude_StrictThreshold ==
    /\ runPc = "analysed"
    /\ runPc' = "exit"
    /\ IF raErr # NoError
       THEN exitCode' = 1 /\ compliance' = compliance
       ELSE /\ compliance' = OverallCompliance(result)
            /\ \E written \in BOOLEAN :
                 exitCode' = IF ~written THEN 1
                             ELSE IF compliance' <= cli.Threshold * ComplianceScale THEN 1
                             ELSE 0
    /\ UNCHANGED <<result, raErr, ci, flags>>
    /\ RunFrame

\* runAnalyze after RunAnalysis returned: an error ends the command; otherwise
\* the overall compliance is computed, written out and compared with the threshold
Conclude ==
    /\ runPc = "analysed"
    /\ runPc' = "exit"
    /\ IF raErr # NoError
       THEN exitCode' = 1 /\ compliance' = compliance
       ELSE /\ compliance' = OverallCompliance(result)
            /\ \E written \in BOOLEAN :
                 exitCode' = IF ~written THEN 1
                             ELSE IF compliance' < cli.Threshold * ComplianceScale THEN 1
                             ELSE 0
    /\ UNCHANGED <<result, raErr, ci, flags>>
    /\ RunFrame

NextRun == StartAnalyze \/ FetchProject \/ RunOrigin \/ RunImage \/ RunControls \/ Conclude

SpecRun == InitRun /\ [][NextRun]_vars

------------------------------------------------------------------------------
(* Claims about one run of the analyze command (SpecRun)                    *)

\* the origin data collection ran and ended in a limited analysis
LimitedRun == ci # Nil /\ flags.LimitedAnalysis

\* the file fetch of the top-level configuration was made and answered 404
ConfigNotFound ==
    /\ ci # Nil
    /\ ~world.Project.Archived
    /\ ~world.Project.NotFound
    /\ world.FileFetchError = <<"GET /files: ", "4", "0", "4", " Not Found">>

\* C5: a run that ends in a limited analysis reports 0% compliance, so the
\* analyze command exits non-zero for every required threshold greater than 0.
C5_LimitedRunFailsThreshold ==
    (runPc = "exit" /\ LimitedRun /\ cli.Threshold > 0) =>
        (compliance = 0 /\ exitCode # 0)

\* C6: when the configuration fetch answers 404 for a project that exists, the
\* run reports configuration-missing and configuration-valid, sets limited
\* analysis, and RunAnalysis returns without an error.
C6_NotFoundIsMissingNotInvalid ==
    (runPc \in {"analysed", "exit"} /\ ConfigNotFound) =>
        /\ flags.CiMissing /\ flags.CiValid /\ flags.LimitedAnalysis
        /\ result.CiMissing /\ result.CiValid
        /\ raErr = NoError

\* RunAnalysis has returned after the configuration fetch answered 404
C6_Witness ==
    /\ runPc = "analysed"
    /\ ConfigNotFound
    /\ result.CiMissing
    /\ result.PipelineOriginMetrics # Nil

------------------------------------------------------------------------------
(* Image reference parsing (collector, GitlabPipelineImageInfo)             *)

defaultTag == <<"l", "a", "t", "e", "s", "t">>
dockerHubDomain == <<"d", "o", "c", "k", "e", "r", ".", "i", "o">>
unknownRegistry == <<"u", "n", "k", "n", "o", "w", "n">>

AlphaNumericUnderscore ==
    {"a", "b", "c", "d", "e", "f", "g", "h", "i", "j", "k", "l", "m",
     "n", "o", "p", "q", "r", "s", "t", "u", "v", "w", "x", "y", "z",
     "A", "B", "C", "D", "E", "F", "G", "H", "I", "J", "K", "L", "M",
     "N", "O", "P", "Q", "R", "S", "T", "U", "V", "W", "X", "Y", "Z",
     "0", "1", "2", "3", "4", "5", "6", "7", "8", "9", "_"}

isAlphaNumericUnderscore(c) == c \in AlphaNumericUnderscore

\* Go's s[from:to] with 0-based offsets
Mid(s, from, to) == SubSeq(s, from + 1, to)

\* strings.Split for a separator of any positive length
RECURSIVE SplitSeq(_, _)
SplitSeq(s, sep) ==
    LET i == Index(s, sep) IN
    IF i = -1 THEN <<s>>
    ELSE <<Upto(s, i)>> \o SplitSeq(From(s, i + Len(sep)), sep)

\* strings.ReplaceAll for a non-empty old: leftmost occurrences, not overlapping
RECURSIVE ReplaceAll(_, _, _)
ReplaceAll(s, old, new) ==
    LET i == Index(s, old) IN
    IF i = -1 THEN s
    ELSE Upto(s, i) \o new \o ReplaceAll(From(s, i + Len(old)), old, new)

\* strings.TrimSpace
WhiteSpace == {" ", "\t", "\n", "\r"}

TrimSpace(s) ==
    LET kept == {i \in 1..Len(s) : s[i] \notin WhiteSpace} IN
    IF kept = {} THEN << >>
    ELSE SubSeq(s, CHOOSE i \in kept : \A j \in kept : i <= j,
                   CHOOSE i \in kept : \A j \in kept : i >= j)

\* the three fields that the parser decides
Parsed(registry, name, tag) == [Registry |-> registry, Name |-> name, Tag |-> tag]

\* an edge case of handlePresenceOfVariables that did not return
NoMatch == [nomatch |-> TRUE]

\* "preserve full structure": the whole link is the name
Preserve(link) == Parsed(unknownRegistry, link, << >>)

\* the variable scan of handlePresenceOfVariables: varEnd for a variable whose
\* name starts at offset varEnd
RECURSIVE VarEnd(_, _)
VarEnd(link, varEnd) ==
    IF varEnd < Len(link) /\ isAlphaNumericUnderscore(link[varEnd + 1])
    THEN VarEnd(link, varEnd + 1)
    ELSE varEnd

\* the variables of the link from offset at, in order of appearance
RECURSIVE ExtractVariables(_, _)
ExtractVariables(link, at) ==
    IF at >= Len(link) THEN << >>
    ELSE IF link[at + 1] = "$"
    THEN LET varEnd == VarEnd(link, at + 1) IN
         <<Mid(link, at, varEnd)>> \o ExtractVariables(link, varEnd)
    ELSE ExtractVariables(link, at + 1)

\* edge case $IMAGE::$TAG
DoubleColonCase(link) ==
    LET parts == SplitSeq(link, <<":", ":">>) IN
    IF /\ Contains(link, <<":", ":">>)
       /\ Len(parts) = 2
       /\ Count(parts[1], "$") = 1
       /\ Count(parts[2], "$") = 1
    THEN Parsed(unknownRegistry, parts[1], parts[2])
    ELSE NoMatch

\* edge case $REGISTRY//$IMAGE:$TAG
DoubleSlashCase(link) ==
    LET lastColon == LastIndex(link, <<":">>)
        after == From(link, lastColon + 1)
        split == /\ Contains(link, <<":">>)
                 /\ lastColon > 0
                 /\ \/ ~Contains(after, <<"/">>) /\ ~Contains(after, <<"$">>)
                    \/ Count(after, "$") = 1
        tag == IF split THEN after ELSE << >>
        nameWithSlash == IF split THEN Upto(link, lastColon) ELSE link
    IN  IF Contains(link, <<"/", "/">>)
        THEN Parsed(unknownRegistry, ReplaceAll(nameWithSlash, <<"/", "/">>, <<"/">>), tag)
        ELSE NoMatch

\* edge case /$IMAGE:$TAG
LeadingSlashCase(link) ==
    LET linkWithoutLeadingSlash == From(link, 1)
        lastColon == LastIndex(linkWithoutLeadingSlash, <<":">>)
        after == From(linkWithoutLeadingSlash, lastColon + 1)
        split == /\ Contains(linkWithoutLeadingSlash, <<":">>)
                 /\ lastColon > 0
                 /\ \/ ~Contains(after, <<"/">>) /\ ~Contains(after, <<"$">>)
                    \/ Count(after, "$") = 1
    IN  IF ~HasPrefix(link, <<"/">>) THEN NoMatch
        ELSE IF split
        THEN Parsed(unknownRegistry, Upto(linkWithoutLeadingSlash, lastColon), after)
        ELSE Parsed(unknownRegistry, linkWithoutLeadingSlash, << >>)

\* registry.domain.com/deep/namespace/path/$IMAGE:$TAG
LiteralRegistryCase(link) ==
    LET firstSlash == Index(link, <<"/">>)
        potentialRegistry == Upto(link, firstSlash)
        remainingPath == From(link, firstSlash + 1)
        lastColon == LastIndex(remainingPath, <<":">>)
        afterColon == From(remainingPath, lastColon + 1)
        lastAt == LastIndex(remainingPath, <<"@">>)
        afterAt == From(remainingPath, lastAt + 1)
        byColon == /\ Contains(remainingPath, <<":">>)
                   /\ lastColon > 0
                   /\ ~Contains(afterColon, <<"/">>)
                   /\ ~Contains(afterColon, <<"$">>) \/ Count(afterColon, "$") = 1
        byAt == /\ ~Contains(remainingPath, <<":">>)
                /\ Contains(remainingPath, <<"@">>)
                /\ lastAt > 0
                /\ ~Contains(afterAt, <<"$">>) \/ Count(afterAt, "$") = 1
    IN  IF /\ firstSlash > 0
           /\ Contains(potentialRegistry, <<".">>) \/ Contains(potentialRegistry, <<":">>)
           /\ ~HasPrefix(potentialRegistry, <<"$">>)
        THEN IF byColon THEN Parsed(potentialRegistry, Upto(remainingPath, lastColon), afterColon)
             ELSE IF byAt THEN Parsed(potentialRegistry, Upto(remainingPath, lastAt), afterAt)
             ELSE Parsed(potentialRegistry, remainingPath, << >>)
        ELSE NoMatch

\* only a dot makes a registry domain
LooksLikeDomain_DotOnly(part) == Contains(part, <<".">>)

\* does the part look like a registry domain (contains . or :)
LooksLikeDomain(part) == Contains(part, <<".">>) \/ Contains(part, <<":">>)

\* handlePresenceOfVariables, numberOfVariables == 1
OneVariableCase(link, variables) ==
    LET variable == variables[1]
        varPos == Index(link, variable)
        beforeVar == Upto(link, varPos)
        afterVar == IF varPos + Len(variable) < Len(link)
                    THEN From(link, varPos + Len(variable)) ELSE << >>
        beforeSeparator == Upto(beforeVar, Len(beforeVar) - 1)
        lastSlash == LastIndex(beforeSeparator, <<"/">>)
        registryPart == Upto(beforeSeparator, lastSlash)
        lastColon == LastIndex(link, <<":">>)
        afterColon == From(link, lastColon + 1)
        separated == varPos > 0 /\ (HasSuffix(beforeVar, <<":">>) \/ HasSuffix(beforeVar, <<"@">>))
    IN  IF separated /\ Contains(beforeSeparator, <<"/">>) /\ LooksLikeDomain(registryPart)
        THEN Parsed(registryPart, From(beforeSeparator, lastSlash + 1), variable \o afterVar)
        ELSE IF separated /\ ~Contains(beforeSeparator, <<"/">>)
        THEN Parsed(dockerHubDomain, beforeSeparator, variable \o afterVar)
        ELSE IF varPos > 0 /\ HasSuffix(beforeVar, <<"/">>) /\ LooksLikeDomain(beforeSeparator)
        THEN IF HasPrefix(afterVar, <<":">>)
             THEN Parsed(beforeSeparator, variable, From(afterVar, 1))
             ELSE Parsed(beforeSeparator, variable \o afterVar, << >>)
        ELSE IF varPos = 0
        THEN IF Len(link) = Len(variable)
             THEN Parsed(unknownRegistry, variable, << >>)
             ELSE IF /\ Contains(link, <<":">>)
                     /\ lastColon > 0
                     /\ ~Contains(afterColon, <<"/">>)
                     /\ ~Contains(afterColon, <<"$">>)
             THEN Parsed(unknownRegistry, Upto(link, lastColon), afterColon)
             ELSE Preserve(link)
        ELSE Preserve(link)

\* handlePresenceOfVariables, numberOfVariables == 2
TwoVariableCase(link, variables) ==
    LET firstVariable == variables[1]
        secondVariable == variables[2]
        firstVarStart == Index(link, firstVariable)
        firstVarEnd == firstVarStart + Len(firstVariable)
        secondVarStart == Index(From(link, firstVarEnd), secondVariable) + firstVarEnd
        beforeFirstVar == IF firstVarStart > 0 THEN Upto(link, firstVarStart) ELSE << >>
        betweenVars == IF secondVarStart > firstVarEnd
                       THEN Mid(link, firstVarEnd, secondVarStart) ELSE << >>
        afterSecondVar == IF secondVarStart + Len(secondVariable) < Len(link)
                          THEN From(link, secondVarStart + Len(secondVariable)) ELSE << >>
        registryPart == Upto(beforeFirstVar, Len(beforeFirstVar) - 1)
        prefixed == /\ beforeFirstVar # << >>
                    /\ HasSuffix(beforeFirstVar, <<"/">>)
                    /\ LooksLikeDomain(registryPart)
        remaining == TrimPrefix(afterSecondVar, <<"/">>)
        parts == Split(remaining, ":")
        lastColon == LastIndex(link, <<":">>)
        tag == From(link, lastColon + 1)
    IN  IF prefixed /\ betweenVars = <<":">> /\ afterSecondVar = << >>
        THEN Parsed(registryPart, firstVariable, secondVariable)
        ELSE IF prefixed /\ betweenVars = <<"/">> /\ HasPrefix(afterSecondVar, <<":">>)
        THEN Parsed(registryPart, firstVariable \o <<"/">> \o secondVariable,
                    TrimPrefix(afterSecondVar, <<":">>))
        ELSE IF prefixed /\ betweenVars = <<"/">> /\ afterSecondVar = << >>
        THEN Parsed(registryPart, firstVariable \o <<"/">> \o secondVariable, << >>)
        ELSE IF prefixed /\ HasSuffix(betweenVars, <<":">>) /\ afterSecondVar = << >>
        THEN Parsed(registryPart, firstVariable \o TrimSuffix(betweenVars, <<":">>),
                    secondVariable)
        ELSE IF beforeFirstVar = << >> /\ betweenVars = <<":">> /\ afterSecondVar = << >>
        THEN Parsed(unknownRegistry, firstVariable, secondVariable)
        ELSE IF /\ beforeFirstVar = << >>
                /\ betweenVars = <<":">>
                /\ HasPrefix(afterSecondVar, <<"/">>)
        THEN IF Contains(remaining, <<":">>)
             THEN Parsed(firstVariable \o <<":">> \o secondVariable, parts[1], parts[2])
             ELSE Parsed(firstVariable \o <<":">> \o secondVariable, remaining, << >>)
        ELSE IF beforeFirstVar = << >> /\ betweenVars = <<"@">>
        THEN Parsed(unknownRegistry, firstVariable, secondVariable)
        ELSE IF beforeFirstVar = << >> /\ betweenVars = << >>
        THEN Parsed(unknownRegistry, firstVariable \o secondVariable, << >>)
        ELSE IF /\ Contains(link, <<":">>)
                /\ lastColon > 0
                /\ ~Contains(tag, <<"/">>)
                /\ Count(tag, "$") <= 1
        THEN Parsed(unknownRegistry, Upto(link, lastColon), tag)
        ELSE Preserve(link)

\* the tail shared by the three and four variable cases: a link that ends
\* with :$TAG
EndsWithVariableTag(link) ==
    LET lastColon == LastIndex(link, <<":">>)
        afterColon == From(link, lastColon + 1)
    IN  /\ Contains(link, <<":">>)
        /\ lastColon > 0
        /\ ~Contains(afterColon, <<"/">>)
        /\ HasPrefix(afterColon, <<"$">>)
        /\ Count(afterColon, "$") = 1

\* handlePresenceOfVariables, numberOfVariables == 3
ThreeVariableCase(link) ==
    LET colonPos == Index(link, <<":">>)
        atPos == Index(link, <<"@">>)
        slashPos == Index(link, <<"/">>)
        beforeColon == Upto(link, colonPos)
        betweenColonAt == Mid(link, colonPos + 1, atPos)
        afterAt == From(link, atPos + 1)
        lastColon == LastIndex(link, <<":">>)
        lastAt == LastIndex(link, <<"@">>)
        afterLastAt == From(link, lastAt + 1)
        registryPortPart == Upto(link, slashPos)
        imagePart == From(link, slashPos + 1)
    IN  IF /\ Contains(link, <<":">>) /\ Contains(link, <<"@">>)
           /\ colonPos < atPos
           /\ Count(beforeColon, "$") = 1
           /\ Count(betweenColonAt, "$") = 1
           /\ Count(afterAt, "$") = 1
        THEN Parsed(unknownRegistry, beforeColon, betweenColonAt \o <<"@">> \o afterAt)
        ELSE IF EndsWithVariableTag(link)
        THEN Parsed(unknownRegistry, Upto(link, lastColon), From(link, lastColon + 1))
        ELSE IF /\ Contains(link, <<"@">>)
                /\ lastAt > 0
                /\ HasPrefix(afterLastAt, <<"$">>)
                /\ Count(afterLastAt, "$") = 1
        THEN Parsed(unknownRegistry, Upto(link, lastAt), afterLastAt)
        ELSE IF /\ Contains(link, <<":">>) /\ Contains(link, <<"/">>)
                /\ colonPos < slashPos
                /\ Count(registryPortPart, "$") = 2
                /\ Count(imagePart, "$") = 1
        THEN Parsed(registryPortPart, imagePart, << >>)
        ELSE Preserve(link)

\* handlePresenceOfVariables, numberOfVariables == 4
FourVariableCase(link) ==
    LET colonPos == Index(link, <<":">>)
        slashPos == Index(link, <<"/">>)
        registryPortPart == Upto(link, slashPos)
        remainingPart == From(link, slashPos + 1)
        lastColon == LastIndex(remainingPart, <<":">>)
        imagePart == Upto(remainingPart, lastColon)
        tagPart == From(remainingPart, lastColon + 1)
        registryPort == /\ Contains(link, <<":">>) /\ Contains(link, <<"/">>)
                        /\ colonPos < slashPos
                        /\ Count(registryPortPart, "$") = 2
        linkLastColon == LastIndex(link, <<":">>)
    IN  IF /\ registryPort
           /\ Contains(remainingPart, <<":">>)
           /\ lastColon > 0
           /\ ~Contains(tagPart, <<"/">>)
           /\ Count(imagePart, "$") = 1
           /\ Count(tagPart, "$") = 1
        THEN Parsed(registryPortPart, imagePart, tagPart)
        ELSE IF /\ registryPort
                /\ ~Contains(remainingPart, <<":">>)
                /\ Count(remainingPart, "$") = 2
        THEN Parsed(registryPortPart, remainingPart, << >>)
        ELSE IF EndsWithVariableTag(link)
        THEN Parsed(unknownRegistry, Upto(link, linkLastColon), From(link, linkLastColon + 1))
        ELSE Preserve(link)

\* the cases of handlePresenceOfVariables that depend on the number of variables
VariableCountCase(link) ==
    LET variables == ExtractVariables(link, 0)
        numberOfVariables == Len(variables)
    IN  IF numberOfVariables = 1 THEN OneVariableCase(link, variables)
        ELSE IF numberOfVariables = 2 THEN TwoVariableCase(link, variables)
        ELSE IF numberOfVariables = 3 THEN ThreeVariableCase(link)
        ELSE IF numberOfVariables = 4 THEN FourVariableCase(link)
        ELSE Preserve(link)

\* handlePresenceOfVariables: Registry, Name and Tag of a link with a `$` in it
handlePresenceOfVariables(link) ==
    IF DoubleColonCase(link) # NoMatch THEN DoubleColonCase(link)
    ELSE IF DoubleSlashCase(link) # NoMatch THEN DoubleSlashCase(link)
    ELSE IF LeadingSlashCase(link) # NoMatch THEN LeadingSlashCase(link)
    ELSE IF LiteralRegistryCase(link) # NoMatch THEN LiteralRegistryCase(link)
    ELSE VariableCountCase(link)

\* the last lines of parseImageLink: an empty name is replaced by the original link
SafetyCheck(i, originalLink) ==
    IF TrimSpace(i.Name) = << >> /\ TrimSpace(originalLink) # << >>
    THEN [i EXCEPT !.Name = originalLink, !.Registry = unknownRegistry, !.Tag = << >>]
    ELSE i

\* parseImageLink: i is the GitlabPipelineImageInfo as Run initialises it
parseImageLink(i) ==
    LET originalLink == i.Link
        firstSlash == Index(i.Link, <<"/">>)
        registryPart == Upto(i.Link, firstSlash)
        remainingPart == From(i.Link, firstSlash + 1)
        parts == Split(i.Link, ":")
        remainingParts == Split(remainingPart, ":")
        withVariables == handlePresenceOfVariables(i.Link)
    IN  IF Contains(i.Link, <<"$">>)
        THEN [i EXCEPT !.Registry = withVariables.Registry,
                       !.Name = withVariables.Name,
                       !.Tag = withVariables.Tag]
        ELSE IF firstSlash = -1
        THEN [Link |-> dockerHubDomain \o <<"/">> \o originalLink,
              Registry |-> dockerHubDomain,
              Name |-> parts[1],
              Tag |-> IF Len(parts) > 1 THEN parts[2] ELSE i.Tag]
        ELSE IF LooksLikeDomain(registryPart)
        THEN SafetyCheck([Link |-> i.Link,
                          Registry |-> registryPart,
                          Name |-> remainingParts[1],
                          Tag |-> IF Len(remainingParts) > 1 THEN remainingParts[2] ELSE i.Tag],
                         originalLink)
        ELSE SafetyCheck([Link |-> dockerHubDomain \o <<"/">> \o originalLink,
                          Registry |-> dockerHubDomain,
                          Name |-> parts[1],
                          Tag |-> IF Len(parts) > 1 THEN parts[2] ELSE i.Tag],
                         originalLink)

\* ---- inputs ----

\* longest image link of the exhaustive part of the input
MaxLen == 5

\* the characters the parser tells apart, one letter and a blank
ImageChars == {"$", "/", ":", ".", "@", "a", " "}

\* the patterns that the comments of handlePresenceOfVariables name and that
\* are longer than MaxLen, with the names shortened
PatternLinks ==
    { <<"$", ":", "$", "/", "$", ":", "$">>,                \* $REGISTRY:$PORT/$IMAGE:$TAG
      <<"$", ":", "$", "/", "$", "/", "$">>,                \* $REGISTRY:$PORT/$USER/$IMAGE
      <<"a", "/", "a", ".", "a", "/", "a", ":", "$">>,      \* deep/registry.domain/image:$TAG
      <<"a", "/", "a", ".", "a", "/", "$", ":", "$">>,      \* deep/registry.com/$IMAGE:$TAG
      <<"a", "/", "a", ".", "a", "/", "$", "/", "$", ":", "a">>,
      <<"a", "/", "a", ".", "a", "/", "$", "/", "a", ":", "$">> }

ImageLinks == SeqsUpTo(ImageChars, MaxLen) \cup PatternLinks

\* ---- the body of the job loop of GitlabPipelineImageDataCollection.Run ----

InitImage ==
    /\ imgPc = "resolved"
    /\ imageLink \in ImageLinks
    /\ image = Unused
    /\ BranchUnused
    /\ OriginUnused
    /\ RunUnused
    /\ FurtherUnused

\* a job without an image is skipped
SkipEmptyImage ==
    /\ imgPc = "resolved"
    /\ imageLink = << >>
    /\ imgPc' = "skipped"
    /\ UNCHANGED <<imageLink, image, bpVars, originVars, runVars, furtherVars>>

\* the image is initialised with the default tag, parsed and appended to data.Images
ParseImage ==
    /\ imgPc = "resolved"
    /\ imageLink # << >>
    /\ image' = parseImageLink([Link |-> imageLink, Name |-> << >>,
                                Tag |-> defaultTag, Registry |-> << >>])
    /\ imgPc' = "parsed"
    /\ UNCHANGED <<imageLink, bpVars, originVars, runVars, furtherVars>>

NextImage == SkipEmptyImage \/ ParseImage

SpecImage == InitImage /\ [][NextImage]_vars

\* ---- claims about the image parser ----

\* C7: for every non-empty image string given to the parser, with or without
\* a `$`, the parsed name is not empty.
C7_NameNeverEmpty ==
    imgPc = "parsed" => image.Name # << >>

\* the step attempts the fetch of the jobs of an inclusion and the fetch fails
FailedFetchStep ==
    /\ Len(fetchLog') = Len(fetchLog) + 1
    /\ fetchLog'[Len(fetchLog')].Failed

\* inclusion k has been processed: skipped as a nameless catalog component,
\* recorded as nested, or its jobs were asked for
Processed(k) == NamelessCatalogComponent(k) \/ NestedInclusion(k) \/ FetchAttempted(k)

\* C14: when the fetch of the jobs of a non-nested inclusion fails, the step
\* changes no job's flag and records no Origin, and the loop goes on: the run
\* is never left with an error, the loop is at its next iteration or at its
\* end, and when the run has returned every inclusion, the later ones
\* included, has been processed.
C14_FailedFetchIsSkipped ==
    /\ [][FailedFetchStep =>
            /\ ~NestedInclusion(idx + 1)
            /\ JobMap' = JobMap
            /\ JobHardcodedMap' = JobHardcodedMap
            /\ Origins' = Origins
            /\ idx' = idx + 1
            /\ pc' = "includes"]_vars
    /\ []((\E k \in 1..Len(fetchLog) : fetchLog[k].Failed) =>
            /\ pc \in {"includes", "done"}
            /\ pc = "includes" => idx <= Len(Inclusions)
            /\ pc = "done" => \A k \in 1..Len(Inclusions) : Processed(k))

\* a completed run over two inclusions: the fetch of the first one failed
\* while the job table held a hardcoded job, the jobs of the second one were
\* fetched and one of them was attributed to it
C14_Witness ==
    /\ CompletedNonLimited
    /\ Len(Inclusions) = 2
    /\ FetchFailed(1)
    /\ FetchAttempted(2) /\ ~FetchFailed(2)
    /\ Len(Origins) = 2 /\ Origins[1].Jobs # << >>
    /\ \E n \in DOMAIN JobMap : JobMap[n].IsOverridden

------------------------------------------------------------------------------
(* Inputs of the inclusions: buildIncludeInputsMap over the unexpanded      *)
(* configuration and the lookup Run makes before it fetches an inclusion    *)

\* a map[string]interface{} of inputs: nil, or a set of key/value pairs
NilInputs == [IsNil |-> TRUE, Entries |-> {}]
InputsOf(entries) == [IsNil |-> FALSE, Entries |-> entries]

\* an include entry that is a map: the keys present, the string under each
\* key (empty when absent) and the map under the key inputs
StringKeys == {"component", "local", "file", "project", "remote", "template"}
IncludeMap(key, location, hasInputs, in) ==
    [Keys |-> IF hasInputs THEN {key, "inputs"} ELSE {key},
     Strings |-> [k \in StringKeys |-> IF k = key THEN location ELSE << >>],
     Inputs |-> in]
NoIncludeMap == [Keys |-> {}, Strings |-> [k \in StringKeys |-> << >>], Inputs |-> {}]

\* the include key of a map entry that extractInputsFromInclude looks at first
IncludeKey(includeMap) ==
    IF "component" \in includeMap.Keys THEN "component"
    ELSE IF "local" \in includeMap.Keys THEN "local"
    ELSE IF "file" \in includeMap.Keys THEN "file"
    ELSE IF "remote" \in includeMap.Keys THEN "remote"
    ELSE IF "template" \in includeMap.Keys THEN "template"
    ELSE "none"

\* extractInputsFromInclude: the fingerprint of an include entry and its inputs
extractInputsFromInclude(includeEntry, instanceURL) ==
    IF includeEntry.Kind = "string"
    THEN [hash |-> GenerateOriginHash([Location |-> includeEntry.Str, Type |-> "",
                                       Project |-> << >>]),
          inputs |-> NilInputs]
    ELSE IF includeEntry.Kind = "map"
    THEN LET includeMap == includeEntry.Map
             key == IncludeKey(includeMap)
             written == [Location |-> IF key = "none" THEN << >> ELSE includeMap.Strings[key],
                         Type |-> CASE key = "component" -> glOriginComponent
                                    [] key = "local" -> glOriginLocal
                                    [] key = "file" -> glOriginProject
                                    [] key = "remote" -> glOriginRemote
                                    [] key = "template" -> glOriginTemplate
                                    [] OTHER -> "",
                         Project |-> IF key = "file" /\ "project" \in includeMap.Keys
                                     THEN includeMap.Strings["project"] ELSE << >>]
             parsed == ParseGitlabComponentPath(written.Location, instanceURL)
             actualInstance == TrimPrefix(TrimPrefix(instanceURL, <<"https://">>), <<"http://">>)
             instance == IF parsed.instance \in {<<"$CI_SERVER_HOST">>, <<"$CI_SERVER_FQDN">>,
                                                 <<"$CI_SERVER_URL">>}
                         THEN actualInstance ELSE parsed.instance
             includeOrigin ==
                 IF written.Type = glOriginComponent
                 THEN [written EXCEPT !.Location = instance \o <<"/">> \o parsed.cleanPath]
                 ELSE written
         IN  [hash |-> GenerateOriginHash(includeOrigin),
              inputs |-> IF "inputs" \in includeMap.Keys
                         THEN InputsOf(includeMap.Inputs) ELSE NilInputs]
    ELSE [hash |-> ZeroHash, inputs |-> NilInputs]

RECURSIVE buildIncludeInputsMap(_, _, _)
\* buildIncludeInputsMap: the entries are taken in order, an entry with inputs
\* overwrites what an earlier entry with the same fingerprint stored
buildIncludeInputsMap(include, instanceURL, acc) ==
    IF include = << >> THEN acc
    ELSE LET e == extractInputsFromInclude(Head(include), instanceURL)
         IN  buildIncludeInputsMap(Tail(include), instanceURL,
                IF e.hash # ZeroHash /\ Cardinality(e.inputs.Entries) > 0
                THEN MapPut(acc, e.hash, e.inputs) ELSE acc)

\* includeInputsMap[hash]: nil for a fingerprint that is not a key
LookupInputs(m, hash) == IF hash \in DOMAIN m THEN m[hash] ELSE NilInputs


\* ---- inputs ----

\* most include entries of an unexpanded configuration
MaxEntries == 2

\* the instance URLs of conf.GitlabURL
InstanceURLs == {GitlabURL, <<"http://", "i">>}

ServerName(instanceURL) == TrimPrefix(TrimPrefix(instanceURL, <<"https://">>), <<"http://">>)

\* the ways an unexpanded configuration writes the host of a component:
\* the instance itself, a variable, or another host
WrittenHosts(instanceURL) ==
    {ServerName(instanceURL), <<"$CI_SERVER_FQDN">>, <<"$CI_SERVER_HOST">>,
     <<"$CI_SERVER_URL">>, <<"o">>}

VersionSuffixes == {<< >>, <<"@", "1">>, <<"@", "2">>}

\* inputs: key absent, or one of two values of the same key
DeclaredInputs == {{<<"stage", "x">>}, {<<"stage", "y">>}}

MapEntry(key, location, hasInputs, in) ==
    [Kind |-> "map", Str |-> << >>, Map |-> IncludeMap(key, location, hasInputs, in)]

ComponentEntries(instanceURL) ==
    {MapEntry("component", host \o <<"/", "g", "/", "c">> \o version, FALSE, {}) :
        host \in WrittenHosts(instanceURL), version \in VersionSuffixes}
    \cup
    {MapEntry("component", host \o <<"/", "g", "/", "c">> \o version, TRUE, in) :
        host \in WrittenHosts(instanceURL), version \in VersionSuffixes, in \in DeclaredInputs}

OtherEntries ==
    {[Kind |-> "string", Str |-> <<"l.yml">>, Map |-> NoIncludeMap],
     MapEntry("local", <<"l.yml">>, FALSE, {}),
     [Kind |-> "other", Str |-> << >>, Map |-> NoIncludeMap]}
    \cup {MapEntry("local", <<"l.yml">>, TRUE, in) : in \in DeclaredInputs}

IncludeEntries(instanceURL) == ComponentEntries(instanceURL) \cup OtherEntries

\* is the entry a component inclusion
IsComponentEntry(includeEntry) ==
    includeEntry.Kind = "map" /\ "component" \in includeEntry.Map.Keys

\* the inputs an entry declares
EntryInputs(includeEntry) ==
    IF includeEntry.Kind = "map" /\ "inputs" \in includeEntry.Map.Keys
    THEN InputsOf(includeEntry.Map.Inputs) ELSE NilInputs

\* the occurrence of an entry in the inclusion list of the expansion service,
\* which has resolved a variable host to the name of the instance
ExpandedInclude(includeEntry, instanceURL) ==
    LET path == includeEntry.Map.Strings["component"]
        parsed == ParseGitlabComponentPath(path, instanceURL)
        variable == parsed.instance \in {<<"$CI_SERVER_HOST">>, <<"$CI_SERVER_FQDN">>,
                                         <<"$CI_SERVER_URL">>}
    IN  IF IsComponentEntry(includeEntry)
        THEN [Location |-> IF variable
                           THEN ServerName(instanceURL) \o <<"/">> \o TrimPrefix(path, parsed.instance \o <<"/">>)
                           ELSE path,
              Type |-> glOriginComponent,
              ContextProject |-> ProjectPath, Extra |-> [Project |-> << >>, Ref |-> << >>]]
        ELSE LocalInclude

\* ---- the inputs map and its use in GitlabPipelineOriginDataCollection.Run ----

InitInputs ==
    /\ inPc = "build"
    /\ \E instanceURL \in InstanceURLs :
         \E n \in 1..MaxEntries :
           \E include \in [1..n -> IncludeEntries(instanceURL)] :
              inWorld = [InstanceURL |-> instanceURL, Include |-> include,
                         Includes |-> [k \in 1..n |-> ExpandedInclude(include[k], instanceURL)]]
    /\ includeInputsMap = EmptyMap
    /\ includeInputs = << >>
    /\ BranchUnused
    /\ OriginUnused
    /\ RunUnused
    /\ ImageUnused
    /\ CollectUnused
    /\ ResolveUnused
    /\ LaterUnused

\* Run builds the map from the unexpanded configuration before the include loop
BuildIncludeInputsMap ==
    /\ inPc = "build"
    /\ includeInputsMap' = buildIncludeInputsMap(inWorld.Include, inWorld.InstanceURL, EmptyMap)
    /\ inPc' = "lookup"
    /\ UNCHANGED <<inWorld, includeInputs, bpVars, originVars, runVars, imageVars,
                   collectVars, resolveVars, laterVars>>

\* one iteration of the include loop, up to the fetch of the job names: the
\* fingerprint of the occurrence and the inputs the fetch is given
LookupIncludeInputs ==
    /\ inPc = "lookup"
    /\ LET k == Len(includeInputs) + 1
           originData == IncludeOrigin(inWorld.Includes[k], TheProject(FALSE),
                                       [Resources |-> << >>, ComponentMap |-> EmptyMap,
                                        VersionMap |-> EmptyMap],
                                       inWorld.InstanceURL).origin
       IN  /\ includeInputs' = Append(includeInputs,
                                  [OriginHash |-> originData.OriginHash,
                                   Inputs |-> LookupInputs(includeInputsMap, originData.OriginHash)])
           /\ inPc' = IF k = Len(inWorld.Includes) THEN "done" ELSE "lookup"
    /\ UNCHANGED <<inWorld, includeInputsMap, bpVars, originVars, runVars, imageVars,
                   collectVars, resolveVars, laterVars>>

NextInputs == BuildIncludeInputsMap \/ LookupIncludeInputs

SpecInputs == InitInputs /\ [][NextInputs]_vars

\* ---- claims about the inputs of the inclusions ----

\* the component entries whose occurrence has been looked up
LookedUpComponents ==
    {k \in 1..Len(includeInputs) : IsComponentEntry(inWorld.Include[k])}

\* C13: for a component inclusion the fingerprint of its entry in the
\* unexpanded configuration equals the fingerprint of its occurrence in the
\* inclusion list, however the host and the version are written, and the
\* inputs the entry declares are the ones found when its jobs are fetched.
C13_DeclaredInputsFound ==
    inPc \in {"lookup", "done"} =>
        \A k \in LookedUpComponents :
            /\ extractInputsFromInclude(inWorld.Include[k], inWorld.InstanceURL).hash
                 = includeInputs[k].OriginHash
            /\ EntryInputs(inWorld.Include[k]).Entries # {}
                 => includeInputs[k].Inputs = EntryInputs(inWorld.Include[k])

\* the part of C13 that the code keeps: the two fingerprints are equal
FingerprintsAgree ==
    inPc \in {"lookup", "done"} =>
        \A k \in LookedUpComponents :
            extractInputsFromInclude(inWorld.Include[k], inWorld.InstanceURL).hash
                = includeInputs[k].OriginHash

\* a component written with a variable host and a version, with inputs
VariableHostLookedUp ==
    \E k \in LookedUpComponents :
        /\ HasPrefix(inWorld.Include[k].Map.Strings["component"], <<"$CI_SERVER_FQDN">>)
        /\ EntryInputs(inWorld.Include[k]).Entries # {}

------------------------------------------------------------------------------
(* gitlab.ReplaceVariable: the resolution of variables in an image string    *)

\* [a-zA-Z_] and [0-9], restricted to the characters the inputs are made of
NameStartChars == {"A", "B", "x", "_"}
DigitChars == {"1", "2", "3", "4", "5", "6"}
NameChars == NameStartChars \cup DigitChars

RECURSIVE NameRun(_, _)
\* how many characters of s, from position i on, match [a-zA-Z0-9_]*
NameRun(s, i) ==
    IF i <= Len(s) /\ s[i] \in NameChars THEN 1 + NameRun(s, i + 1) ELSE 0

\* the length of the match of the regular expression of ReplaceVariable that
\* starts at position i of s, 0 when there is none: $NAME, ${NAME} or %NAME%
MatchAt(s, i) ==
    LET at(j) == IF j <= Len(s) THEN s[j] ELSE ""
    IN  IF at(i) = "$" /\ at(i + 1) \in NameStartChars
        THEN 1 + NameRun(s, i + 1)
        ELSE IF /\ at(i) = "$" /\ at(i + 1) = "{" /\ at(i + 2) \in NameStartChars
                /\ at(i + 2 + NameRun(s, i + 2)) = "}"
        THEN 3 + NameRun(s, i + 2)
        ELSE IF /\ at(i) = "%" /\ at(i + 1) \in NameStartChars
                /\ at(i + 1 + NameRun(s, i + 1)) = "%"
        THEN 2 + NameRun(s, i + 1)
        ELSE 0

\* the match with every $, {, } and % removed
VarName(match) ==
    Select(match, {i \in 1..Len(match) : match[i] \notin {"$", "{", "}", "%"}})

\* the group scope is asked before the project scope
LookupVariable_GroupFirst(match, project, group, instance, job, defaultJob, predefined) ==
    LET varName == VarName(match)
    IN  IF varName \in DOMAIN group THEN group[varName]
        ELSE IF varName \in DOMAIN project THEN project[varName]
        ELSE IF varName \in DOMAIN instance THEN instance[varName]
        ELSE IF varName \in DOMAIN job THEN job[varName]
        ELSE IF varName \in DOMAIN defaultJob THEN defaultJob[varName]
        ELSE IF varName \in DOMAIN predefined THEN predefined[varName]
        ELSE match

\* the function ReplaceAllStringFunc is given: the replacement of one match
LookupVariable(match, project, group, instance, job, defaultJob, predefined) ==
    LET varName == VarName(match)
    IN  IF varName \in DOMAIN project THEN project[varName]
        ELSE IF varName \in DOMAIN group THEN group[varName]
        ELSE IF varName \in DOMAIN instance THEN instance[varName]
        ELSE IF varName \in DOMAIN job THEN job[varName]
        ELSE IF varName \in DOMAIN defaultJob THEN defaultJob[varName]
        ELSE IF varName \in DOMAIN predefined THEN predefined[varName]
        ELSE match

RECURSIVE ReplaceAllFrom(_, _, _, _, _, _, _, _)
\* ReplaceAllStringFunc from position i on: the matches are taken from left to
\* right without overlap, what lies between them is copied
ReplaceAllFrom(s, i, project, group, instance, job, defaultJob, predefined) ==
    IF i > Len(s) THEN << >>
    ELSE LET n == MatchAt(s, i)
         IN  IF n = 0
             THEN <<s[i]>> \o ReplaceAllFrom(s, i + 1, project, group, instance, job,
                                             defaultJob, predefined)
             ELSE LookupVariable(SubSeq(s, i, i + n - 1), project, group, instance, job,
                                 defaultJob, predefined)
                  \o ReplaceAllFrom(s, i + n, project, group, instance, job,
                                    defaultJob, predefined)

\* resolveVariables: one substitution pass
resolveVariables(input, project, group, instance, job, defaultJob, predefined) ==
    ReplaceAllFrom(input, 1, project, group, instance, job, defaultJob, predefined)

maxLevels == 5

\* the loop goes on after the pass limit
LoopGoesOn_NoLimit(previous, current, level) == current # previous

\* the condition of the loop of ReplaceVariable
LoopGoesOn(previous, current, level) == current # previous /\ level < maxLevels

RECURSIVE ReplaceLoop(_, _, _, _, _, _, _, _, _)
ReplaceLoop(previous, current, level, project, group, instance, job, defaultJob, predefined) ==
    IF LoopGoesOn(previous, current, level)
    THEN ReplaceLoop(current,
                     resolveVariables(current, project, group, instance, job, defaultJob,
                                      predefined),
                     level + 1, project, group, instance, job, defaultJob, predefined)
    ELSE current

\* ReplaceVariable: the passes are repeated until one changes nothing
ReplaceVariable(input, project, group, instance, job, defaultJob, predefined) ==
    ReplaceLoop(<< >>, input, 0, project, group, instance, job, defaultJob, predefined)

\* the call of ReplaceVariable in the job loop of the image data collection
ResolveImage(imageUnresolved, data, jobVars, predefinedVars) ==
    ReplaceVariable(imageUnresolved, data.ProjectVars, data.GroupVars, data.InstanceVars,
                    jobVars, data.GlobalVars, predefinedVars)


\* ---- inputs ----

\* longest string of the exhaustive part of the input of ReplaceVariable
MaxVarLen == 3

\* the characters the regular expression tells apart: the markers and a name
\* character
ResolveChars == {"$", "{", "}", "%", "A"}

\* strings whose resolution takes more passes than maxLevels, though each
\* value is free of tokens: a pass completes the next token
LongChains ==
    { <<"$", "{", "A", "}", "A", "}", "A", "}", "A", "}", "A", "}", "A", "}">>,
      <<"$", "{", "A", "}", "{", "A", "}", "{", "A", "}", "{", "A", "}", "{", "A", "}", "A">> }

ResolveInputs == SeqsUpTo(ResolveChars, MaxVarLen) \cup LongChains

NoVars == EmptyMap
OneVar(name, value) == MapPut(EmptyMap, name, value)

\* variable A defined in any set of scopes, with a value that names the scope
PrecedenceScopes ==
    {[ProjectVars |-> IF 1 \in S THEN OneVar(<<"A">>, <<"1">>) ELSE NoVars,
      GroupVars |-> IF 2 \in S THEN OneVar(<<"A">>, <<"2">>) ELSE NoVars,
      InstanceVars |-> IF 3 \in S THEN OneVar(<<"A">>, <<"3">>) ELSE NoVars,
      JobVars |-> IF 4 \in S THEN OneVar(<<"A">>, <<"4">>) ELSE NoVars,
      GlobalVars |-> IF 5 \in S THEN OneVar(<<"A">>, <<"5">>) ELSE NoVars,
      PredefinedVars |-> IF 6 \in S THEN OneVar(<<"A">>, <<"6">>) ELSE NoVars] :
        S \in (SUBSET (1..6)) \ {{}}}

\* values of a variable: undefined, empty, a marker, text, a reference to the
\* other variable, a reference to itself
Undefined == <<"undefined">>
ChainValues ==
    {Undefined, << >>, <<"$">>, <<"$", "{">>, <<"x">>, <<"$", "B">>, <<"$", "A">>,
     <<"$", "A", "/">>, <<"%", "A", "%">>}

\* the values of the second variable: undefined, text, a reference back
BackValues == {Undefined, <<"x">>, <<"$", "A">>}

\* variable A of the job and variable B of the predefined variables
ChainScopes ==
    {[ProjectVars |-> NoVars, GroupVars |-> NoVars, InstanceVars |-> NoVars,
      JobVars |-> IF va = Undefined THEN NoVars ELSE OneVar(<<"A">>, va),
      GlobalVars |-> NoVars,
      PredefinedVars |-> IF vb = Undefined THEN NoVars ELSE OneVar(<<"B">>, vb)] :
        va \in ChainValues, vb \in BackValues}

ScopeChoices == PrecedenceScopes \cup ChainScopes

\* ---- ReplaceVariable as a state machine: one step per pass of its loop ----

InitResolve ==
    /\ rvPc = "loop"
    /\ rvInput \in ResolveInputs
    /\ rvScopes \in ScopeChoices
    /\ rvPrevious = << >>
    /\ rvCurrent = rvInput
    /\ rvLevel = 0
    /\ rvOutputs = << >>
    /\ BranchUnused
    /\ OriginUnused
    /\ RunUnused
    /\ ImageUnused
    /\ InputsUnused
    /\ CollectUnused
    /\ LaterUnused

\* one iteration of the loop
ResolvePass ==
    /\ rvPc = "loop"
    /\ LoopGoesOn(rvPrevious, rvCurrent, rvLevel)
    /\ rvPrevious' = rvCurrent
    /\ rvCurrent' = resolveVariables(rvCurrent, rvScopes.ProjectVars, rvScopes.GroupVars,
                                     rvScopes.InstanceVars, rvScopes.JobVars,
                                     rvScopes.GlobalVars, rvScopes.PredefinedVars)
    /\ rvLevel' = rvLevel + 1
    /\ UNCHANGED <<rvPc, rvInput, rvScopes, rvOutputs>>
    /\ UNCHANGED <<bpVars, originVars, runVars, imageVars, inputsVars, collectVars, laterVars>>

\* the loop is left and current is returned
ReturnCurrent ==
    /\ rvPc = "loop"
    /\ ~LoopGoesOn(rvPrevious, rvCurrent, rvLevel)
    /\ rvOutputs' = Append(rvOutputs, rvCurrent)
    /\ rvPc' = "returned"
    /\ UNCHANGED <<rvInput, rvScopes, rvPrevious, rvCurrent, rvLevel>>
    /\ UNCHANGED <<bpVars, originVars, runVars, imageVars, inputsVars, collectVars, laterVars>>

\* ReplaceVariable is applied to what it returned, with the same mappings
ResolveOutput ==
    /\ rvPc = "returned"
    /\ Len(rvOutputs) = 1
    /\ rvInput' = rvOutputs[1]
    /\ rvPrevious' = << >>
    /\ rvCurrent' = rvOutputs[1]
    /\ rvLevel' = 0
    /\ rvPc' = "loop"
    /\ UNCHANGED <<rvScopes, rvOutputs>>
    /\ UNCHANGED <<bpVars, originVars, runVars, imageVars, inputsVars, collectVars, laterVars>>

NextResolve == ResolvePass \/ ReturnCurrent \/ ResolveOutput

SpecResolve == InitResolve /\ [][NextResolve]_vars

\* every application of ReplaceVariable is run to its end
SpecResolveFair == SpecResolve /\ WF_vars(NextResolve)

\* ---- claims about the variable resolution ----

\* the values of the six scope mappings
ScopeValues ==
    UNION {{rvScopes[f][name] : name \in DOMAIN rvScopes[f]} : f \in DOMAIN rvScopes}

\* s contains a variable token
HasToken(s) == \E i \in 1..Len(s) : MatchAt(s, i) > 0

\* C16: when no value of the scope mappings contains a variable token,
\* applying the resolution to its own output returns that output unchanged.
C16_Idempotent ==
    (/\ rvPc = "returned"
     /\ Len(rvOutputs) = 2
     /\ \A value \in ScopeValues : ~HasToken(value))
        => rvOutputs[2] = rvOutputs[1]


\* the step is a substitution pass
PassStep == rvPc = "loop" /\ rvLevel' = rvLevel + 1

\* the step leaves the loop
ReturnStep == rvPc = "loop" /\ rvPc' = "returned"

\* C17: the resolution terminates for every input and every scope mappings,
\* self-referential and mutually referential values included: it makes at most
\* 5 substitution passes, makes no pass after one that left the string
\* unchanged, returns only after an unchanged pass or after the fifth pass,
\* and every application returns.
C17_AtMostFivePasses ==
    /\ [](rvLevel <= 5)
    /\ [][/\ PassStep => rvLevel < 5 /\ (rvLevel >= 1 => rvCurrent # rvPrevious)
          /\ ReturnStep => rvLevel = 5 \/ rvCurrent = rvPrevious]_vars
    /\ [](rvPc = "loop" => <>(rvPc = "returned"))

\* an application that was stopped by the pass limit while the string was
\* still changing, with a variable that refers to itself
C17_Witness ==
    /\ rvPc = "returned"
    /\ rvLevel = 5
    /\ rvCurrent # rvPrevious
    /\ <<"A">> \in DOMAIN rvScopes.JobVars
    /\ rvScopes.JobVars[<<"A">>] = <<"$", "A", "/">>

\* the scope mappings from the highest precedence to the lowest
ByPrecedence ==
    <<rvScopes.ProjectVars, rvScopes.GroupVars, rvScopes.InstanceVars, rvScopes.JobVars,
      rvScopes.GlobalVars, rvScopes.PredefinedVars>>

\* the ranks of the scopes that define the variable
DefiningScopes(name) == {r \in 1..6 : name \in DOMAIN ByPrecedence[r]}

\* the three ways a token names a variable
TokensOf(name) == {<<"$">> \o name, <<"$", "{">> \o name \o <<"}">>, <<"%">> \o name \o <<"%">>}

\* C18: after the first pass over a string that is one token, the string is
\* the value the variable has in the scope of highest precedence that defines
\* it, in the order project, group, instance, job, pipeline-global,
\* predefined; a token whose variable no scope defines is left unchanged.
C18_HighestPrecedenceWins ==
    \A name \in {<<"A">>, <<"A", "A">>} :
        (rvLevel = 1 /\ rvOutputs = << >> /\ rvPrevious \in TokensOf(name)) =>
            IF DefiningScopes(name) = {}
            THEN rvCurrent = rvPrevious
            ELSE LET first == CHOOSE r \in DefiningScopes(name) :
                                  \A q \in DefiningScopes(name) : r <= q
                 IN  rvCurrent = ByPrecedence[first][name]

\* a token of a variable that the group scope, the job scope and the
\* predefined variables define with different values has been replaced
C18_Witness ==
    /\ rvLevel = 1 /\ rvOutputs = << >>
    /\ rvPrevious = <<"%", "A", "%">>
    /\ DefiningScopes(<<"A">>) = {2, 4, 6}
    /\ rvCurrent = <<"2">>

------------------------------------------------------------------------------
(* GitlabPipelineImageDataCollection.Run: the variables of the three scopes  *)
(* are fetched, then the image of every job is resolved and parsed           *)

\* an image declaration of the configuration, as the YAML decoder leaves it
NilImage == [Type |-> "nil", Name |-> << >>]
StringImage(name) == [Type |-> "string", Name |-> name]
MapImage(name) == [Type |-> "map", Name |-> name]
BadMapImage == [Type |-> "badmap", Name |-> << >>]
OtherImage == [Type |-> "other", Name |-> << >>]

\* gitlab.GetImageName
GetImageName(imageInterface) ==
    CASE imageInterface.Type = "map" -> [name |-> imageInterface.Name, err |-> NoError]
      [] imageInterface.Type = "badmap" -> [name |-> << >>, err |-> <<"yaml: cannot unmarshal">>]
      [] imageInterface.Type = "string" -> [name |-> imageInterface.Name, err |-> NoError]
      [] OTHER -> [name |-> << >>, err |-> NoError]

\* gitlab.ParseDefaultImage
ParseDefaultImage(conf) ==
    IF conf.DefaultImage # NilImage THEN GetImageName(conf.DefaultImage)
    ELSE IF conf.Image # NilImage THEN GetImageName(conf.Image)
    ELSE [name |-> << >>, err |-> NoError]

\* gitlab.ParseGlobalVariables and gitlab.ParseJobVariables: the variables of
\* the block, or an error when a value cannot be read
ParseVariables(block) ==
    IF block.Ok THEN [vars |-> block.Vars, err |-> NoError]
    ELSE [vars |-> EmptyMap, err |-> <<"unable to parse variable">>]

RECURSIVE ConvertCICDVariableToMap(_)
\* gitlab.ConvertCICDVariableToMap: a later variable of the same name wins
ConvertCICDVariableToMap(variables) ==
    IF variables = << >> THEN EmptyMap
    ELSE MapPut(ConvertCICDVariableToMap(SubSeq(variables, 1, Len(variables) - 1)),
                variables[Len(variables)].Name, variables[Len(variables)].Value)

\* the predefined variables of Run; no image of the model names them
predefinedVars ==
    MapPut(MapPut(EmptyMap, <<"CI_TEMPLATE_REGISTRY_HOST">>, <<"registry.gitlab.com">>),
           <<"SECURE_ANALYZERS_PREFIX">>, << >>)

\* the data Run starts from
InitialImageData ==
    [CiValid |-> TRUE, CiMissing |-> FALSE, InstanceVars |-> EmptyMap, GroupVars |-> EmptyMap,
     ProjectVars |-> EmptyMap, GlobalVars |-> EmptyMap, DefaultImage |-> << >>,
     Images |-> << >>, Total |-> 0, Visited |-> {}]

\* one iteration of the job loop on the data collected so far
AnalyseJobImage(data, name, content) ==
    LET jobVars == ParseVariables(content.Variables)
        named == GetImageName(content.Image).name
        imageUnresolved == IF named = << >> THEN data.DefaultImage ELSE named
        resolvedLink == ResolveImage(imageUnresolved, data, jobVars.vars, predefinedVars)
        parsedImage == parseImageLink([Link |-> resolvedLink, Name |-> << >>,
                                       Tag |-> defaultTag, Registry |-> << >>])
        visited == [data EXCEPT !.Visited = @ \cup {name}]
    IN  IF ~content.ParseOk THEN [data |-> data, err |-> <<"unable to parse job">>]
        ELSE IF jobVars.err # NoError THEN [data |-> data, err |-> jobVars.err]
        ELSE IF resolvedLink = << >> THEN [data |-> visited, err |-> NoError]
        ELSE [data |-> [visited EXCEPT !.Images = Append(@, [Job |-> name, Image |-> parsedImage])],
              err |-> NoError]

\* ---- inputs ----

\* what the origin data collection found
OriginFlags ==
    {[CiValid |-> TRUE, CiMissing |-> FALSE], [CiValid |-> FALSE, CiMissing |-> FALSE],
     [CiValid |-> TRUE, CiMissing |-> TRUE]}

\* answers of a variable endpoint: an error, or a list of variables
FailedAnswer == [err |-> <<"request failed">>, variables |-> << >>]
Answer(variables) == [err |-> NoError, variables |-> variables]

InstanceAnswers == {FailedAnswer, Answer(<<[Name |-> <<"A">>, Value |-> <<"3">>]>>)}
GroupAnswers == {FailedAnswer, Answer(<< >>)}
ProjectAnswers ==
    {FailedAnswer, Answer(<< >>),
     Answer(<<[Name |-> <<"A">>, Value |-> <<"0">>], [Name |-> <<"A">>, Value |-> <<"1">>]>>)}

\* jobs: unparsable, with unreadable variables, without image, with an image
\* that names variable A
CollectJobs ==
    {[ParseOk |-> FALSE, Variables |-> [Ok |-> TRUE, Vars |-> EmptyMap], Image |-> NilImage],
     [ParseOk |-> TRUE, Variables |-> [Ok |-> FALSE, Vars |-> EmptyMap], Image |-> NilImage],
     [ParseOk |-> TRUE, Variables |-> [Ok |-> TRUE, Vars |-> EmptyMap], Image |-> NilImage],
     [ParseOk |-> TRUE, Variables |-> [Ok |-> TRUE, Vars |-> EmptyMap],
      Image |-> StringImage(<<"a", ":", "$", "A">>)]}

CollectJobNames == {"j", "k"}

MergedConfs ==
    {[DefaultImage |-> di, Image |-> ri, GlobalVariables |-> gv, GitlabJobs |-> jobs] :
        di \in {NilImage, StringImage(<<"d">>)},
        ri \in {NilImage, BadMapImage},
        gv \in {[Ok |-> FALSE, Vars |-> EmptyMap],
                [Ok |-> TRUE, Vars |-> OneVar(<<"A">>, <<"5">>)]},
        jobs \in UNION {[S -> CollectJobs] : S \in SUBSET CollectJobNames}}

\* ---- the collection as a state machine ----

InitCollect ==
    /\ colPc = "start"
    /\ \E found \in OriginFlags, isGroup \in BOOLEAN, conf \in MergedConfs,
          ia \in InstanceAnswers, ga \in GroupAnswers, pa \in ProjectAnswers :
         colWorld = [Origin |-> [CiValid |-> found.CiValid, CiMissing |-> found.CiMissing,
                                 MergedConf |-> conf],
                     IsGroup |-> isGroup,
                     InstanceVariables |-> ia, InheritedVariables |-> ga,
                     ProjectVariables |-> pa]
    /\ colData = Unused
    /\ colErr = NoError
    /\ BranchUnused
    /\ OriginUnused
    /\ RunUnused
    /\ ImageUnused
    /\ InputsUnused
    /\ ResolveUnused
    /\ LaterUnused

\* Run returns data with the error err
ReturnFromCollect(data, err) ==
    /\ colData' = data
    /\ colErr' = err
    /\ colPc' = "returned"

\* from the start of Run to the first request for variables
StartCollect ==
    /\ colPc = "start"
    /\ LET data == [InitialImageData EXCEPT !.CiValid = colWorld.Origin.CiValid,
                                            !.CiMissing = colWorld.Origin.CiMissing]
           defaultImage == ParseDefaultImage(colWorld.Origin.MergedConf)
           globalVars == ParseVariables(colWorld.Origin.MergedConf.GlobalVariables)
       IN  IF ~data.CiValid \/ data.CiMissing THEN ReturnFromCollect(data, NoError)
           ELSE IF defaultImage.err # NoError
           THEN ReturnFromCollect([data EXCEPT !.DefaultImage = defaultImage.name],
                                  defaultImage.err)
           ELSE IF globalVars.err # NoError
           THEN ReturnFromCollect([data EXCEPT !.DefaultImage = defaultImage.name,
                                               !.GlobalVars = globalVars.vars],
                                  globalVars.err)
           ELSE /\ colData' = [data EXCEPT !.DefaultImage = defaultImage.name,
                                           !.GlobalVars = globalVars.vars]
                /\ colPc' = "instance"
                /\ UNCHANGED colErr
    /\ UNCHANGED colWorld
    /\ UNCHANGED <<bpVars, originVars, runVars, imageVars, inputsVars, resolveVars, laterVars>>

\* the instance variables, asked for unless the organisation is a group
FetchInstanceVariables ==
    /\ colPc = "instance"
    /\ IF colWorld.IsGroup
       THEN /\ colPc' = "group"
            /\ UNCHANGED <<colData, colErr>>
       ELSE IF colWorld.InstanceVariables.err # NoError
       THEN ReturnFromCollect(colData, colWorld.InstanceVariables.err)
       ELSE /\ colData' = [colData EXCEPT !.InstanceVars =
                              ConvertCICDVariableToMap(colWorld.InstanceVariables.variables)]
            /\ colPc' = "group"
            /\ UNCHANGED colErr
    /\ UNCHANGED colWorld
    /\ UNCHANGED <<bpVars, originVars, runVars, imageVars, inputsVars, resolveVars, laterVars>>

\* the variables inherited from the groups
FetchInheritedVariables ==
    /\ colPc = "group"
    /\ IF colWorld.InheritedVariables.err # NoError
       THEN ReturnFromCollect(colData, colWorld.InheritedVariables.err)
       ELSE /\ colData' = [colData EXCEPT !.GroupVars =
                              ConvertCICDVariableToMap(colWorld.InheritedVariables.variables)]
            /\ colPc' = "project"
            /\ UNCHANGED colErr
    /\ UNCHANGED colWorld
    /\ UNCHANGED <<bpVars, originVars, runVars, imageVars, inputsVars, resolveVars, laterVars>>

\* the variables of the project
FetchProjectVariables ==
    /\ colPc = "project"
    /\ IF colWorld.ProjectVariables.err # NoError
       THEN ReturnFromCollect(colData, colWorld.ProjectVariables.err)
       ELSE /\ colData' = [colData EXCEPT !.ProjectVars =
                              ConvertCICDVariableToMap(colWorld.ProjectVariables.variables)]
            /\ colPc' = "jobs"
            /\ UNCHANGED colErr
    /\ UNCHANGED colWorld
    /\ UNCHANGED <<bpVars, originVars, runVars, imageVars, inputsVars, resolveVars, laterVars>>

\* one iteration of the loop over the jobs, in the order of the map
AnalyseJob ==
    /\ colPc = "jobs"
    /\ \E name \in DOMAIN colWorld.Origin.MergedConf.GitlabJobs \ colData.Visited :
         LET r == AnalyseJobImage(colData, name, colWorld.Origin.MergedConf.GitlabJobs[name])
         IN  IF r.err # NoError THEN ReturnFromCollect(r.data, r.err)
             ELSE /\ colData' = r.data
                  /\ UNCHANGED <<colPc, colErr>>
    /\ UNCHANGED colWorld
    /\ UNCHANGED <<bpVars, originVars, runVars, imageVars, inputsVars, resolveVars, laterVars>>

\* after the last job: the metrics, and the data is returned
FinishCollect ==
    /\ colPc = "jobs"
    /\ colData.Visited = DOMAIN colWorld.Origin.MergedConf.GitlabJobs
    /\ ReturnFromCollect([colData EXCEPT !.Total = Len(colData.Images)], NoError)
    /\ UNCHANGED colWorld
    /\ UNCHANGED <<bpVars, originVars, runVars, imageVars, inputsVars, resolveVars, laterVars>>

NextCollect ==
    \/ StartCollect
    \/ FetchInstanceVariables
    \/ FetchInheritedVariables
    \/ FetchProjectVariables
    \/ AnalyseJob
    \/ FinishCollect

SpecCollect == InitCollect /\ [][NextCollect]_vars

\* ---- claims about the image data collection ----

\* the configuration is usable and nothing in it fails to parse
ConfigurationReadable ==
    LET conf == colWorld.Origin.MergedConf
    IN  /\ colWorld.Origin.CiValid /\ ~colWorld.Origin.CiMissing
        /\ ParseDefaultImage(conf).err = NoError
        /\ conf.GlobalVariables.Ok
        /\ \A name \in DOMAIN conf.GitlabJobs :
              conf.GitlabJobs[name].ParseOk /\ conf.GitlabJobs[name].Variables.Ok

\* the request for the variables of a scope fails
ScopeFetchFails ==
    \/ ~colWorld.IsGroup /\ colWorld.InstanceVariables.err # NoError
    \/ colWorld.InheritedVariables.err # NoError
    \/ colWorld.ProjectVariables.err # NoError

\* C15: when the fetch of a variable scope (instance, group-inherited or
\* project) fails, the image resolution goes on with that scope empty: Run
\* returns no error and the image list covers every job.
C15_ScopeFailureRecoverable ==
    (colPc = "returned" /\ ConfigurationReadable /\ ScopeFetchFails) =>
        /\ colErr = NoError
        /\ colData.Visited = DOMAIN colWorld.Origin.MergedConf.GitlabJobs

------------------------------------------------------------------------------
(* Claims about the parser on image strings without variables (SpecImage)    *)

\* an image string without `$` has been parsed
ParsedWithoutVariables == imgPc = "parsed" /\ \A i \in 1..Len(imageLink) : imageLink[i] # "$"

\* the position of the first `/` of the image string, 0 when there is none
FirstSlashAt ==
    IF \E i \in 1..Len(imageLink) : imageLink[i] = "/"
    THEN CHOOSE i \in 1..Len(imageLink) :
            imageLink[i] = "/" /\ \A j \in 1..(i - 1) : imageLink[j] # "/"
    ELSE 0

\* the segment before the first `/`
FirstSegment == SubSeq(imageLink, 1, FirstSlashAt - 1)

\* there is a first segment and it contains `.` or `:`
SegmentIsRegistry ==
    FirstSlashAt > 0 /\ \E i \in 1..Len(FirstSegment) : FirstSegment[i] \in {".", ":"}

\* the parser prefixed the default registry to the image string
RegistrySynthesized == image.Link = dockerHubDomain \o <<"/">> \o imageLink

\* registry + "/" + name + ":" + tag, without a synthesized default registry
Rejoined ==
    IF RegistrySynthesized THEN image.Name \o <<":">> \o image.Tag
    ELSE image.Registry \o <<"/">> \o image.Name \o <<":">> \o image.Tag

\* C19: for every image string without `$`, the parts joined as
\* registry/name:tag, a synthesized default registry removed, give back the
\* original string, or the original string with the default tag added when
\* the parser used the default tag.
C19_PartsRejoinToOriginal ==
    ParsedWithoutVariables =>
        \/ Rejoined = imageLink
        \/ image.Tag = defaultTag /\ Rejoined = imageLink \o <<":">> \o defaultTag

\* C20: for an image string without `$` the segment before the first `/` is
\* the registry if and only if it contains `.` or `:`; otherwise the registry
\* is docker.io and the canonical reference is the original string with
\* docker.io/ prefixed.
C20_RegistryIffDomainSegment ==
    ParsedWithoutVariables =>
        IF SegmentIsRegistry
        THEN image.Registry = FirstSegment
        ELSE image.Registry = dockerHubDomain /\ RegistrySynthesized

\* what follows the first `/` up to the first `:` after it
NameAfterSegment ==
    LET rest == SubSeq(imageLink, FirstSlashAt + 1, Len(imageLink))
        colons == {i \in 1..Len(rest) : rest[i] = ":"}
    IN  IF colons = {} THEN rest
        ELSE SubSeq(rest, 1, (CHOOSE i \in colons : \A j \in colons : i <= j) - 1)

\* C20 (amended): for an image string without `$` whose first segment contains
\* `.` or `:`, the segment is the registry and the canonical reference is the
\* original string, unless the name after it is blank: then the registry is
\* unknown and the name is the original string. In every other case (no `/`
\* included) the registry is docker.io and the canonical reference is the
\* original string with docker.io/ prefixed.
C20_RegistryIffDomainSegmentAndName ==
    ParsedWithoutVariables =>
        IF SegmentIsRegistry
        THEN IF \A i \in 1..Len(NameAfterSegment) : NameAfterSegment[i] = " "
             THEN image.Registry = unknownRegistry /\ image.Name = imageLink
                  /\ image.Link = imageLink
             ELSE image.Registry = FirstSegment /\ image.Link = imageLink
        ELSE image.Registry = dockerHubDomain /\ RegistrySynthesized

\* a string whose first segment holds a port has been parsed, and its registry
\* is that segment
C20_Witness ==
    /\ ParsedWithoutVariables
    /\ imageLink = <<"a", ":", "a", "/", "a">>
    /\ image.Registry = <<"a", ":", "a">>
    /\ image.Name = <<"a">>

------------------------------------------------------------------------------
(* The version check of a component found in the catalog (SpecUpToDate)      *)

\* the longest version string written with characters
MaxVerLen == 3

VersionChars == {"v", "1", "2", "."}

\* version strings: the letter "v" only in front, as a version prefix
VersionStrings ==
    {s \in SeqsUpTo(VersionChars, MaxVerLen) : \A i \in 2..Len(s) : s[i] # "v"}

\* references that are no version numbers, each one token
RefNames ==
    {gitHeadRef, pbLatestTag, glTildeLatestTag, mainBranch, masterBranch,
     <<"dev">>, <<"trunk">>, <<"feature">>}

\* what an include may ask for, and what a catalog release may be called
RequestedVersions == VersionStrings \cup RefNames

DefaultBranches == {<<"dev">>, <<"trunk">>}

\* latestRefs as Run builds it for a project
LatestRefs(defaultBranch) ==
    <<gitHeadRef, defaultBranch, pbLatestTag, glTildeLatestTag, mainBranch, masterBranch>>

InitUpToDate ==
    /\ BranchUnused
    /\ OriginUnused
    /\ RunUnused
    /\ ImageUnused
    /\ InputsUnused
    /\ CollectUnused
    /\ ResolveUnused
    /\ RetryUnused
    /\ AuthUnused
    /\ utdPc = "call"
    /\ utdIn \in [version : RequestedVersions, latestVersion : RequestedVersions,
                  defaultBranch : DefaultBranches]
    /\ utdResult = Unused

\* originData.UpToDate = gitlab.IsUpToDate(originData.Version, latestVersion, latestRefs)
CheckUpToDate ==
    /\ utdPc = "call"
    /\ utdResult' = IsUpToDate(utdIn.version, utdIn.latestVersion,
                               LatestRefs(utdIn.defaultBranch))
    /\ utdPc' = "returned"
    /\ UNCHANGED <<bpVars, originVars, runVars, imageVars, inputsVars, collectVars,
                   resolveVars, retryVars, authVars, utdIn>>

NextUpToDate == CheckUpToDate

SpecUpToDate == InitUpToDate /\ [][NextUpToDate]_vars

\* the requested version is one of the names of the newest state of a component
IsLatestAlias(in) ==
    in.version \in {gitHeadRef, in.defaultBranch, pbLatestTag, glTildeLatestTag,
                    mainBranch, masterBranch}

\* both strings are semantic versions and the requested one is not older
SemverAtLeast(in) ==
    /\ NewVersion(in.version) # VersionError
    /\ NewVersion(in.latestVersion) # VersionError
    /\ CompareVersions(NewVersion(in.version), NewVersion(in.latestVersion)) \in {0, 1}

\* the three cases in which a component counts as up to date
StatedUpToDate(in) ==
    in.version = in.latestVersion \/ IsLatestAlias(in) \/ SemverAtLeast(in)

\* C21: the up-to-date flag of a component found in the catalog is true exactly
\* when the requested version equals the newest catalog version, or is an alias
\* of the repository head (head reference, default branch, latest, ~latest,
\* main, master), or both parse as semantic versions and the requested one is
\* greater than or equal to the newest; it is false in every other case.
C21_UpToDateExactlyWhenStated ==
    utdPc = "returned" => utdResult = StatedUpToDate(utdIn)

\* C21 (amended): the same, provided neither the requested version nor the
\* newest catalog version is the empty string; when either is empty the flag
\* is false.
C21_UpToDateWhenStatedAndNotEmpty ==
    utdPc = "returned" =>
        utdResult = (/\ utdIn.version # << >>
                     /\ utdIn.latestVersion # << >>
                     /\ StatedUpToDate(utdIn))

\* a prefixed version that is semantically the newest one was found up to date
C21_Witness ==
    /\ utdPc = "returned"
    /\ utdIn.version = <<"v", "2">>
    /\ utdIn.latestVersion = <<"2", ".", "0">> \/ utdIn.latestVersion = <<"2">>
    /\ utdResult = TRUE

------------------------------------------------------------------------------
(* Claims about the set of branches to protect (SpecBranch)                  *)

\* the repository branches whose name matches at least one configured pattern
PatternMatched ==
    {name \in Range(bpBranches) :
        \E k \in 1..Len(bpConfig.NamePatterns) :
            WildcardMatch(bpConfig.NamePatterns[k], name)}

C23_ProtectedIffSomeRuleMatches ==
    bpPhase = "done" =>
        \A name \in DOMAIN branchesToProtect :
            LET b == branchesToProtect[name] IN
            /\ b.Protected <=> MatchingRules(name) # {}
            /\ MatchingRules(name) = {} =>
                  /\ ~b.Protected
                  /\ ~b.AllowForcePush
                  /\ b.CodeOwnerApprovalRequired
                  /\ b.MinMergeAccessLevel = AccessLevelNo
                  /\ b.MinPushAccessLevel = AccessLevelNo

\* of two required branches, one is matched by a rule and protected, the other
\* is matched by none of the rules and keeps the baseline
C23_Witness ==
    /\ bpPhase = "done"
    /\ DOMAIN branchesToProtect = {BranchMain, BranchDev}
    /\ Len(bpProtections) = 2
    /\ MatchingRules(BranchMain) = {}
    /\ MatchingRules(BranchDev) = {1, 2}
    /\ branchesToProtect[BranchDev].Protected
    /\ ~branchesToProtect[BranchMain].Protected
    /\ branchesToProtect[BranchMain].CodeOwnerApprovalRequired

------------------------------------------------------------------------------
(* Claims about the limited analysis (SpecOrigin, SpecRun, SpecCollect)      *)

\* the retrieval has been tried and gave an error, a configuration the
\* service reports as invalid, or no configuration at all
ConfigurationUnusable ==
    /\ ci \notin {Nil, Unused}
    /\ \/ ci.err # NoError
       \/ ci.MergedResponse = Nil
       \/ ci.MergedConf = Nil
       \/ Len(ci.MergedResponse.Errors) > 0
       \/ ci.MergedResponse.Status = "INVALID"

\* the origin collection has set the limited-analysis flag
LimitedFlagSet == flags # Unused /\ flags.LimitedAnalysis

\* nothing of the origin collection past the retrieval has happened
OriginShortCircuited ==
    /\ pc = "done"
    /\ catalog = [Resources |-> << >>, ComponentMap |-> EmptyMap, VersionMap |-> EmptyMap]
    /\ fetchLog = << >>
    /\ idx = 0
    /\ JobMap = EmptyMap
    /\ JobHardcodedMap = EmptyMap
    /\ Origins = << >>
    /\ metrics = ZeroMetrics

\* RunAnalysis went from the origin collection straight to its return
AnalysisShortCircuited ==
    /\ runPc \in {"analysed", "exit"}
    /\ raErr = NoError
    /\ result.PipelineImageMetrics = Nil
    /\ result.ImageMutableResult = Nil
    /\ result.ImageUntrustedResult = Nil
    /\ result.BranchProtectionResult = Nil

\* the image collection returned what it started with, without an error
CollectShortCircuited ==
    /\ colErr = NoError
    /\ colData = [InitialImageData EXCEPT !.CiValid = colWorld.Origin.CiValid,
                                          !.CiMissing = colWorld.Origin.CiMissing]

------------------------------------------------------------------------------
(* Claims about a run without the catalog (SpecOrigin)                       *)

\* the request for the catalog has failed and the run is past it
CatalogUnavailable ==
    /\ pc \in {"jobs", "includes", "done", "error"}
    /\ ~flags.LimitedAnalysis
    /\ world.CatalogError

\* the inclusions visited so far that ask for a component and whose origin is
\* recorded: the nested ones and those whose fetch succeeded
RecordedComponentInclusions ==
    {i \in 1..idx :
        /\ Inclusions[i].Type = glOriginComponent
        /\ ~\E k \in 1..Len(fetchLog) : fetchLog[k].Index = i /\ fetchLog[k].Failed}

\* C25: when the catalog cannot be fetched the run goes on to the job table
\* without an error, and no inclusion has a catalog match: every recorded
\* component inclusion has an origin of the component kind, and no origin is
\* marked as coming from the catalog or as up to date.
C25_NoCatalogNoMatch ==
    /\ [][pc = "catalog" /\ world.CatalogError => pc' = "jobs"]_vars
    /\ [](CatalogUnavailable =>
            /\ catalog.ComponentMap = EmptyMap
            /\ \A k \in 1..Len(Origins) :
                  /\ ~Origins[k].FromGitlabCatalog
                  /\ ~Origins[k].UpToDate
                  /\ Origins[k].GitlabIncludeOrigin.Type = glOriginComponent
                        => Origins[k].OriginType = originComponent
            /\ Cardinality({k \in 1..Len(Origins) : Origins[k].OriginType = originComponent})
                  = Cardinality(RecordedComponentInclusions)
            /\ pc = "done" =>
                  /\ metrics.OriginGitLabCatalog = 0
                  /\ metrics.OriginOutdated = 0
                  /\ metrics.OriginComponent = Cardinality(RecordedComponentInclusions))

\* a run without the catalog has completed with two component inclusions, one
\* of them fetched, the other nested and of the newest version, both recorded
\* as components that are not up to date
C25_Witness ==
    /\ CatalogUnavailable
    /\ pc = "done"
    /\ Inclusions = <<ComponentInclude, NestedComponentInclude>>
    /\ Len(Origins) = 3
    /\ \A k \in 1..2 :
          /\ Origins[k].OriginType = originComponent
          /\ ~Origins[k].FromGitlabCatalog
          /\ ~Origins[k].UpToDate
    /\ Origins[2].Version = <<"2">>

------------------------------------------------------------------------------
(* Claims about the count of hardcoded jobs (SpecOrigin)                     *)

\* the origin of the hardcoded jobs: the last one of a completed run
HardcodedBucket == Origins[Len(Origins)]

\* the jobs of the job table whose hardcoded flag is still true
StillHardcoded == {n \in DOMAIN JobMap : JobMap[n].IsHardocded}

\* the three statements about the count of hardcoded jobs
HardcodedCountAgrees ==
    /\ HardcodedBucket.OriginType = originHardcoded
    /\ metrics.JobHardcoded = Len(HardcodedBucket.Jobs)
    /\ Len(HardcodedBucket.Jobs) = Cardinality(StillHardcoded)
    /\ {HardcodedBucket.Jobs[j].Name : j \in 1..Len(HardcodedBucket.Jobs)} = StillHardcoded
    /\ metrics.JobHardcoded <= metrics.JobTotal

\* C30: after a completed non-limited run, the hardcoded-job count of the
\* metrics equals the number of jobs in the job list of the hardcoded origin,
\* which holds exactly the jobs of the job table whose hardcoded flag is still
\* true, and the count never exceeds the total job count.
C30_HardcodedCountMatchesBucket ==
    CompletedNonLimited => HardcodedCountAgrees

\* every job of the unexpanded configuration is in the merged configuration
ConfJobsInMerged == DOMAIN JobHardcodedMap \subseteq DOMAIN JobMap

\* the count agrees in every run in which the merged configuration holds all
\* the jobs of the unexpanded one
HardcodedCountAgreesWhenConfInMerged ==
    CompletedNonLimited /\ ConfJobsInMerged => HardcodedCountAgrees

\* a completed run with a hardcoded job that is missing from the job table
HardcodedJobOutsideTable ==
    /\ CompletedNonLimited
    /\ \E n \in DOMAIN JobHardcodedMap : JobHardcodedMap[n] /\ n \notin DOMAIN JobMap
    /\ metrics.JobHardcoded > Len(HardcodedBucket.Jobs)

------------------------------------------------------------------------------
(* Claims about the exit code and the overall compliance (SpecRun)           *)

\* the command line passed the checks made before the analysis
ArgumentsAccepted == cli.Token /\ cli.Threshold \in 0..100 /\ cli.ConfigOk

\* the command has ended
Exited == runPc = "exit"

\* the compliance computed by the command reaches the threshold
ReachesThreshold == compliance >= cli.Threshold * ComplianceScale

\* RunAnalysis returned without error a result whose compliance reaches the threshold
AnalysedAndCompliant ==
    /\ runPc = "analysed"
    /\ raErr = NoError
    /\ OverallCompliance(result) >= cli.Threshold * ComplianceScale

\* C26: the analyze command exits with 0 if and only if the analysis completes
\* without error and the overall compliance is greater than or equal to the
\* threshold; it exits with 1 when the compliance is below the threshold or an
\* error occurred (rejected arguments, a failed analysis, output that
\* cannot be written). An analysed, compliant result can always exit with 0.
C26_ExitZeroIffCompliant ==
    /\ Exited => exitCode \in {0, 1}
    /\ Exited /\ exitCode = 0 => ArgumentsAccepted /\ raErr = NoError /\ ReachesThreshold
    /\ Exited /\ (~ArgumentsAccepted \/ raErr # NoError) => exitCode = 1
    /\ Exited /\ ArgumentsAccepted /\ raErr = NoError /\ ~ReachesThreshold => exitCode = 1
    /\ AnalysedAndCompliant => ENABLED (Conclude /\ exitCode' = 0)
    /\ runPc = "analysed" /\ ~AnalysedAndCompliant => ~ENABLED (Conclude /\ exitCode' = 0)

\* an analysis of two controls, one compliant, has met a threshold of 50 exactly
C26_Witness ==
    /\ Exited
    /\ exitCode = 0
    /\ cli.Threshold = 50
    /\ compliance = 50 * ComplianceScale
    /\ Cardinality(CountedResults(result)) = 2

\* the three control results of an analysis
ControlFields == {"ImageMutableResult", "ImageUntrustedResult", "BranchProtectionResult"}

\* a control ran and was not skipped
RanUnskipped(f) == result[f] # Nil /\ ~result[f].Skipped

\* what a control contributes to the sum and to the count of the mean
Contribution(f) == IF RanUnskipped(f) THEN result[f].Compliance ELSE 0
Counts(f) == IF RanUnskipped(f) THEN 1 ELSE 0

ContributionSum ==
    Contribution("ImageMutableResult") + Contribution("ImageUntrustedResult")
        + Contribution("BranchProtectionResult")
ContributionCount ==
    Counts("ImageMutableResult") + Counts("ImageUntrustedResult")
        + Counts("BranchProtectionResult")

\* the command computed the overall compliance
ComplianceComputed == Exited /\ ArgumentsAccepted /\ raErr = NoError

\* C29: the overall compliance is the arithmetic mean of the compliance values
\* of the controls that ran and were not skipped; a skipped control adds
\* nothing to the sum nor to the count, whatever compliance it carries, and the
\* overall compliance is 100 when no control ran.
C29_MeanOfControlsThatRan ==
    ComplianceComputed =>
        IF ContributionCount = 0
        THEN compliance = 100 * ComplianceScale
        ELSE compliance * ContributionCount = ContributionSum * ComplianceScale

\* one control skipped with compliance 100, one at 0 and one at 100: the mean is 50
C29_Witness ==
    /\ ComplianceComputed
    /\ result.ImageMutableResult # Nil /\ result.ImageMutableResult.Skipped
    /\ result.ImageMutableResult.Compliance = 100
    /\ RanUnskipped("ImageUntrustedResult") /\ result.ImageUntrustedResult.Compliance = 0
    /\ RanUnskipped("BranchProtectionResult")
    /\ result.BranchProtectionResult.Compliance = 100
    /\ compliance = 50 * ComplianceScale

\* every control was skipped or absent and the overall compliance is 100
NoControlRan ==
    /\ ComplianceComputed
    /\ ContributionCount = 0
    /\ result.ImageMutableResult # Nil
    /\ compliance = 100 * ComplianceScale

------------------------------------------------------------------------------
(* The retrying transport (SpecRetry)                                        *)

\* GitlabRetryMaxRetries of the default configuration
DefaultMaxRetries == 3

\* what the base transport gives back: an error without a response, or a
\* response with a status code
TransportError == [err |-> TRUE, status |-> 0, body |-> "none"]
Response(code) == [err |-> FALSE, status |-> code, body |-> "server"]

Outcomes == {TransportError} \cup {Response(code) : code \in {200, 404, 429, 500, 502, 503, 504}}

\* shouldRetry that also retries a response with status 404
shouldRetry_ClientErrors(outcome) ==
    IF outcome.err THEN TRUE
    ELSE outcome.status \in {404, 429, 500, 502, 503, 504}

\* shouldRetry: network errors, rate limit (429) and server errors (500, 502, 503, 504)
shouldRetry(outcome) ==
    IF outcome.err THEN TRUE
    ELSE outcome.status \in {429, 500, 502, 503, 504}

RetryInputs ==
    UNION {[MaxRetries : {m}, BodyOk : BOOLEAN, Answers : [1..(m + 1) -> Outcomes]] :
              m \in 0..DefaultMaxRetries}

InitRetry ==
    /\ BranchUnused
    /\ OriginUnused
    /\ RunUnused
    /\ ImageUnused
    /\ InputsUnused
    /\ CollectUnused
    /\ ResolveUnused
    /\ UpToDateUnused
    /\ AuthUnused
    /\ rtPc = "start"
    /\ rtIn \in RetryInputs
    /\ rtAttempt = 0
    /\ rtCalls = 0
    /\ rtOut = Unused

\* what a step of RoundTrip leaves alone besides the variables it names
RetryFrame ==
    UNCHANGED <<bpVars, originVars, runVars, imageVars, inputsVars, collectVars, resolveVars,
                upToDateVars, authVars, rtIn>>

\* RoundTrip up to the loop: the request body is read so that it can be sent again
StartRoundTrip ==
    /\ rtPc = "start"
    /\ IF ~rtIn.BodyOk
       THEN rtPc' = "returned" /\ rtOut' = TransportError
       ELSE rtPc' = "attempt" /\ rtOut' = rtOut
    /\ UNCHANGED <<rtAttempt, rtCalls>>
    /\ RetryFrame

\* one iteration of the loop: the request is made; an outcome that is not to
\* be retried is returned, the last attempt leaves the loop, any other one
\* waits for the backoff and goes on
AttemptRoundTrip ==
    /\ rtPc = "attempt"
    /\ rtAttempt <= rtIn.MaxRetries
    /\ rtCalls' = rtCalls + 1
    /\ LET outcome == rtIn.Answers[rtCalls + 1] IN
       IF ~shouldRetry(outcome)
       THEN rtPc' = "returned" /\ rtOut' = outcome /\ rtAttempt' = rtAttempt
       ELSE IF rtAttempt = rtIn.MaxRetries
       THEN rtPc' = "exhausted" /\ rtOut' = rtOut /\ rtAttempt' = rtAttempt
       ELSE rtPc' = "attempt" /\ rtOut' = rtOut /\ rtAttempt' = rtAttempt + 1
    /\ RetryFrame

\* after the loop: the last outcome is returned, a 429 with a body that tells
\* that the rate limit was exceeded
ReturnExhausted ==
    /\ rtPc = "exhausted"
    /\ LET last == rtIn.Answers[rtCalls] IN
       rtOut' = IF ~last.err /\ last.status = 429
                THEN [last EXCEPT !.body = "rate limit exceeded"]
                ELSE last
    /\ rtPc' = "returned"
    /\ UNCHANGED <<rtAttempt, rtCalls>>
    /\ RetryFrame

NextRetry == StartRoundTrip \/ AttemptRoundTrip \/ ReturnExhausted

SpecRetry == InitRetry /\ [][NextRetry]_vars

\* an outcome that is to be retried: a transport error or one of five statuses
Retryable(outcome) == outcome.err \/ outcome.status \in {429, 500, 502, 503, 504}

\* the outcomes the base transport has given so far
OutcomesSeen == [k \in 1..rtCalls |-> rtIn.Answers[k]]

\* C28: for one request the retrying transport calls the base transport at
\* most MaxRetries + 1 times; every outcome before the last call was
\* retryable, and an outcome that is not retryable is the last one: RoundTrip
\* has returned it, unchanged, and makes no further call.
C28_BoundedRetriesStopAtFirstFinal ==
    /\ [](rtPc # "unused" => rtCalls <= rtIn.MaxRetries + 1)
    /\ [](rtPc # "unused" =>
            \A k \in 1..rtCalls :
                ~Retryable(OutcomesSeen[k]) =>
                    k = rtCalls /\ rtPc = "returned" /\ rtOut = OutcomesSeen[k])
    /\ [][rtPc = "returned" => rtCalls' = rtCalls]_vars

\* two retryable outcomes, then a 404 that is returned after three calls
C28_Witness ==
    /\ rtPc = "returned"
    /\ rtIn.MaxRetries = 3
    /\ rtCalls = 3
    /\ OutcomesSeen = <<TransportError, Response(503), Response(404)>>
    /\ rtOut = Response(404)

\* every attempt was retryable: MaxRetries + 1 calls, the last outcome returned
RetriesExhausted ==
    /\ rtPc = "returned"
    /\ rtCalls = rtIn.MaxRetries + 1
    /\ Retryable(rtIn.Answers[rtCalls])
    /\ rtOut.status = 429 /\ rtOut.body = "rate limit exceeded"

------------------------------------------------------------------------------
(* The authorization of a parsed image (SpecAuth)                            *)

authorizedStatus == "authorized"
unauthorizedStatus == "unauthorized"

\* strings.Trim(s, "/")
TrimSlashes(s) ==
    LET kept == {i \in 1..Len(s) : s[i] # "/"} IN
    IF kept = {} THEN << >>
    ELSE SubSeq(s, CHOOSE i \in kept : \A j \in kept : i <= j,
                   CHOOSE i \in kept : \A j \in kept : i >= j)

\* the characters of a variable name: [a-zA-Z_] first, then [a-zA-Z0-9_]
IdentStartChars == NameStartChars \cup {"a"}
IdentChars == IdentStartChars \cup DigitChars

RECURSIVE IdentRun(_, _)
IdentRun(s, i) ==
    IF i <= Len(s) /\ s[i] \in IdentChars THEN 1 + IdentRun(s, i + 1) ELSE 0

RECURSIVE normalizeVarNotation(_)
\* every ${NAME} is rewritten to $NAME
normalizeVarNotation(s) ==
    IF s = << >> THEN << >>
    ELSE IF /\ Len(s) >= 4 /\ s[1] = "$" /\ s[2] = "{" /\ s[3] \in IdentStartChars
            /\ 3 + IdentRun(s, 3) <= Len(s) /\ s[3 + IdentRun(s, 3)] = "}"
    THEN <<"$">> \o SubSeq(s, 3, 2 + IdentRun(s, 3))
             \o normalizeVarNotation(SubSeq(s, 4 + IdentRun(s, 3), Len(s)))
    ELSE <<Head(s)>> \o normalizeVarNotation(Tail(s))

\* gitlab.CheckItemMatchToPatterns
CheckItemMatchToPatterns(item, patterns) ==
    \E k \in 1..Len(patterns) : WildcardMatch(patterns[k], item)

\* the text that checkImageAuthorizationStatus matches against the patterns
ImageUrl(img) ==
    LET base == IF img.Registry = unknownRegistry THEN img.Name
                ELSE img.Registry \o <<"/">> \o img.Name
    IN  IF img.Tag # << >> THEN base \o <<":">> \o img.Tag ELSE base

\* the status, and what granted it: a trusted url or the Docker Hub option
checkImageAuthorizationStatus(img, trustedUrls, trustDockerHubOfficialImages) ==
    LET isDockerHubOfficial ==
            /\ trustDockerHubOfficialImages
            /\ img.Registry = dockerHubDomain
            /\ ~Contains(img.Name, <<"/">>)
        imageUrlSanitized == TrimSlashes(ImageUrl(img))
        imageUrlNormalized == normalizeVarNotation(imageUrlSanitized)
        trustedNormalized == [k \in 1..Len(trustedUrls) |-> normalizeVarNotation(trustedUrls[k])]
    IN  IF Len(trustedUrls) = 0 /\ ~isDockerHubOfficial
        THEN [status |-> unauthorizedStatus, through |-> "none"]
        ELSE IF imageUrlSanitized = << >>
        THEN [status |-> unauthorizedStatus, through |-> "none"]
        ELSE IF CheckItemMatchToPatterns(imageUrlNormalized, trustedNormalized)
        THEN [status |-> authorizedStatus, through |-> "trusted url"]
        ELSE IF isDockerHubOfficial
        THEN [status |-> authorizedStatus, through |-> "docker hub"]
        ELSE [status |-> unauthorizedStatus, through |-> "none"]

\* ---- inputs ----

AuthChars == {"$", "/", ":", ".", "a"}

\* image strings: every one up to MaxLen, and two that write a variable with braces
AuthLinks ==
    (SeqsUpTo(AuthChars, MaxLen) \ {<< >>})
    \cup {<<"$", "{", "a", "}">>, <<"a", "/", "$", "{", "a", "}", ":", "a">>}

\* lists of trusted urls: none, a pinned Docker Hub image, a registry with any
\* image, and patterns written with variables
TrustedUrlChoices ==
    { << >>,
      <<dockerHubDomain \o <<"/", "a", ":", "a">>>>,
      <<<<"a", ".", "a", "/", "*">>, <<"$", "{", "a", "}", "*">>>>,
      <<<<"$", "/", "a">>, <<"$", ":", "$">>>> }

InitAuth ==
    /\ imgPc = "resolved"
    /\ imageLink \in AuthLinks
    /\ image = Unused
    /\ authPc = "wait"
    /\ authIn \in [TrustedUrls : TrustedUrlChoices, TrustDockerHubOfficialImages : BOOLEAN]
    /\ authOut = Unused
    /\ BranchUnused
    /\ OriginUnused
    /\ RunUnused
    /\ InputsUnused
    /\ CollectUnused
    /\ ResolveUnused
    /\ UpToDateUnused
    /\ RetryUnused

\* GitlabImageAuthorizedSourcesConf.Run on one image of the collected data
CheckAuthorization ==
    /\ imgPc = "parsed"
    /\ authPc = "wait"
    /\ authOut' = checkImageAuthorizationStatus(image, authIn.TrustedUrls,
                                                authIn.TrustDockerHubOfficialImages)
    /\ authPc' = "checked"
    /\ UNCHANGED <<bpVars, originVars, runVars, imageVars, inputsVars, collectVars,
                   resolveVars, upToDateVars, retryVars, authIn>>

NextAuth == ParseImage \/ CheckAuthorization

SpecAuth == InitAuth /\ [][NextAuth]_vars

\* ---- claims about the authorization ----

\* the image string as a reference: as written, and with the default registry
\* or the default tag or both supplied
ReferenceTexts ==
    {normalizeVarNotation(t) :
        t \in {imageLink,
               dockerHubDomain \o <<"/">> \o imageLink,
               imageLink \o <<":">> \o defaultTag,
               dockerHubDomain \o <<"/">> \o imageLink \o <<":">> \o defaultTag}}

\* a trusted url matches the image string as a reference
SomeTrustedUrlMatchesReference ==
    \E k \in 1..Len(authIn.TrustedUrls) :
        \E t \in ReferenceTexts :
            WildcardMatch(normalizeVarNotation(authIn.TrustedUrls[k]), t)

\* C27: an image is reported authorized through a trusted url only if a
\* trusted url matches the text of its resolved reference itself, taken as
\* written or with the default registry and the default tag supplied.
C27_AuthorizedOnlyIfReferenceMatches ==
    authPc = "checked" /\ authOut.through = "trusted url"
        => SomeTrustedUrlMatchesReference

\* an image string without `$`, without `/` at either end, with at most one `:`
PlainReference ==
    /\ ~Contains(imageLink, <<"$">>)
    /\ imageLink[1] # "/" /\ imageLink[Len(imageLink)] # "/"
    /\ Count(imageLink, ":") <= 1

\* for such a string the authorization through a trusted url follows the text
PlainReferenceAuthorizedOnlyIfMatches ==
    authPc = "checked" /\ authOut.through = "trusted url" /\ PlainReference
        => SomeTrustedUrlMatchesReference

\* the string a:a:a is authorized by the trusted url docker.io/a:a
AuthorizedByTruncatedReference ==
    /\ authPc = "checked"
    /\ imageLink = <<"a", ":", "a", ":", "a">>
    /\ authIn.TrustedUrls = <<dockerHubDomain \o <<"/", "a", ":", "a">>>>
    /\ ~authIn.TrustDockerHubOfficialImages
    /\ authOut.status = authorizedStatus
    /\ ~SomeTrustedUrlMatchesReference

====
